---------------------------- MODULE Spec2Model ----------------------------
(***************************************************************************)
(* Syllabus Analyzer: the job pipeline of backend/app.py (one FastAPI      *)
(* process, one asyncio event loop) and the concurrent PDF downloader of   *)
(* scripts/polisci_pdf_downloader.py.                                      *)
(*                                                                         *)
(* Pipeline (Spec, SpecPoll, FairSpec, SpecAcq, SpecXref, SpecRerun).  One  *)
(* job is                                                                  *)
(* followed:                                                               *)
(* jobs are keyed by a fresh uuid4, own their download folder and their    *)
(* result files, and share nothing but the event loop, so the tasks of     *)
(* other jobs are stuttering steps here.  Request handlers contain no      *)
(* await and are single steps.  A background task added with               *)
(* background_tasks.add_task runs after the response has been sent; other  *)
(* requests may be served before it starts.  A task runs on the event loop *)
(* without interruption up to its next await: `running` names the task     *)
(* that holds the loop.  discover_and_download_pdfs and                    *)
(* extract_metadata_background contain no await at all;                    *)
(* check_primo_background awaits once per record that has materials.       *)
(* Inside such a section every write of progress is a step of its own.     *)
(* SpecXref and SpecRerun start from a job whose extraction has completed. *)
(* SpecFields follows one document through the extractor chain and the     *)
(* field filter of extract_metadata_background.  SpecCsv applies           *)
(* generate_csv_from_results to the records of a result file.              *)
(*                                                                         *)
(* Downloader (SpecDL, SpecSeq, SpecRun).  download_pdf calls run on the   *)
(* threads of                                                              *)
(* one pool; a `with self.lock` block is one step.  In SpecSeq the calls   *)
(* are made one after the other, with every answer the server can give.    *)
(* In SpecRun one downloader's run() has more references than threads.     *)
(* SpecScan applies get_pdf_links_from_page to a page, SpecName the file   *)
(* name derivation of download_pdf to a reference.                         *)
(***************************************************************************)
EXTENDS Integers, Sequences, FiniteSets, TLC

\* ------------------------------------------------------------- bounds
\* MaxTasks      background tasks that are added for the job in one behaviour
\* MaxJobDocs    links on the source page(s), in Spec, FairSpec and SpecXref
\* MaxPageLinks  links on the source page(s), in SpecAcq
\* MaxPages      semester pages the Arts downloader returns
\* MaxXrefTasks  background tasks that are added in one behaviour of SpecXref
\*               or SpecRerun
\* MaxCalls      download_pdf calls made in one behaviour of SpecDL or SpecSeq
\* MaxSubmitted  references that run() submits to its pool in SpecRun
\* MaxMaterials  entries of a record's reading_materials list in SpecCsv
\* MaxCsvRecords records handed to generate_csv_from_results in SpecCsv
\* MaxElements   <a> and <iframe> elements of the page in SpecScan
\* MaxPieces     pieces a reference's title is made of in SpecName
MaxTasks == 3
MaxJobDocs == 2
MaxPageLinks == 6
MaxPages == 2
MaxXrefTasks == 2
MaxCalls == 3
MaxSubmitted == 4
MaxMaterials == 2
MaxCsvRecords == 1
MaxElements == 3
MaxPieces == 3

\* ---------------------------------------------------- program constants
MaxDownloads == 5  \* max_downloads=5, and all_pdf_links[:5]
MaxWorkers == 3    \* polisci_pdf_downloader.py 258: max_workers = 3
MinPdfBytes == 1024  \* polisci_pdf_downloader.py 206: len(response.content) < 1024

Min(a, b) == IF a <= b THEN a ELSE b

\* --------------------------------------------------------- environment
\* What the calls that leave the program may answer.  A specification fixes
\* an environment `env`:
\*   maxN       the most links the source pages hold
\*   downloads  what download_pdf does: writes the file and returns True
\*              ("ok"), returns False ("fail"), returns False after open() has
\*              created the file ("partial"), raises ("raise", the Arts
\*              downloader only: the other one catches every exception)
\*   mats       what an extractor leaves under reading_materials:
\*              "items" a non-empty list, "empty" an empty list or no such
\*              key, "Unknown" the sentinel string
\*   lookups    what check_metadata_availability does: returns matches
\*              ("found"), returns none ("notfound"), raises or returns
\*              something malformed ("error")
\*   writes     what writing a result file does: writes it ("ok"), fails in
\*              open() ("unwritten"), fails after open() truncated it ("cut")
MaterialKinds == {"items", "empty", "Unknown"}
LookupOutcomes == {"found", "notfound", "error"}
WriteOutcomes == {"ok", "unwritten", "cut"}
DownloadOutcomes(dept) ==
    {"ok", "fail", "partial"} \cup (IF dept = "arts" THEN {"raise"} ELSE {})

\* Spec, FairSpec: all three stages and their interleavings.  The stages branch
\* on whether reading_materials is empty, not on what it holds, and a download
\* that fails leaves no file behind.
JobEnv == [maxN |-> MaxJobDocs, downloads |-> {"ok", "fail", "raise"},
           mats |-> {"items", "empty"}, lookups |-> LookupOutcomes,
           writes |-> WriteOutcomes]
\* SpecAcq: one acquisition, pages longer than the download cap
AcqEnv == [maxN |-> MaxPageLinks, downloads |-> {"ok", "fail", "partial", "raise"},
           mats |-> MaterialKinds, lookups |-> LookupOutcomes, writes |-> WriteOutcomes]
\* FairSpec: as JobEnv, with one outcome for each way a call can send its
\* caller on: a download that raises is handled as one that returns False, and
\* a lookup without matches as one with matches.
LiveEnv == [maxN |-> MaxJobDocs, downloads |-> {"ok", "fail"},
            mats |-> {"items", "empty"}, lookups |-> {"found", "error"},
            writes |-> WriteOutcomes]
\* SpecXref: extraction and cross-reference requests on a job that has results
XrefEnv == JobEnv

\* int(num/den) for num >= 0, den > 0.  Python computes these quotients in
\* floating point; for the list lengths that occur (at most 9) int() of the
\* float equals the integer quotient.
IntOf(num, den) == num \div den

\* app.py 257: int(20 + (30 * (i + 1) / len(semester_links)))
ScanProgress(i, n) == IntOf(20 * n + 30 * (i + 1), n)
\* app.py 286-291: int(start_progress + ((end_progress - start_progress) * step / 3))
StepProgress(i, n, step) == IntOf(150 * n + 120 * i + 40 * step, 3 * n)
\* app.py 287, 304, 309: int(50 + (40 * (i + 1) / len(limited_pdf_links)))
EndProgress(i, n) == IntOf(50 * n + 40 * (i + 1), n)
\* app.py 395: int((i / len(pdf_files)) * 90)
ExtStartProgress(i, n) == IntOf(90 * i, n)
\* The same update with an offset that overshoots the end of the file's share.
ExtAiOvershoot(i, n) == IntOf(90 * i, n) + 50

\* app.py 417: int((i / len(pdf_files)) * 90 + 5)
ExtAiProgress(i, n) == IntOf(90 * i, n) + 5
\* app.py 454, 462: int(((i + 1) / len(pdf_files)) * 90)
ExtDoneProgress(i, n) == IntOf(90 * (i + 1), n)
\* app.py 563: int((i / total_files) * 90)
PrimoProgress(i, n) == IntOf(90 * i, n)

\* ------------------------------------------------------------ documents
\* A document is named by the position of its link on the source page.  Its
\* local file name is derived from the link's title; the titles of the
\* even-numbered links contain the word "Library".
DocNameMentionsLibrary(d) == d % 2 = 0

\* ------------------------------------------------------------- messages
Msg(k, x, y) == [kind |-> k, x |-> x, y |-> y]

\* app.py 511: "Primo" in current_message or "library" in current_message.lower()
\* Messages that quote a file name or a title contain the word when the name does.
MentionsLibrary(m) ==
    \/ m.kind \in {"StartLib", "SavingLib", "LibDone", "LibFailed"}
    \/ /\ m.kind \in {"Checking", "ExtProcessing", "ExtAi", "ExtFallback",
                      "ExtCompleted", "ExtErrorFile", "DlStarting", "DlDownloading"}
       /\ DocNameMentionsLibrary(m.x)

VARIABLES
    jobs_status,   \* the job's entry of jobs_status, or NoJob
    job_folder,    \* DOWNLOADS_DIR/job_id: whether it exists, and the documents in it
    metadata_file, \* RESULTS_DIR/{job_id}_metadata.json
    primo_file,    \* RESULTS_DIR/{job_id}_primo_results.json: likewise
    newest,        \* which of the two result files was written last, "none" if neither
    tasks,         \* the background tasks of the job that have not returned yet
    budget,        \* how many more background tasks the model lets the job add
    running,       \* the task that holds the event loop, 0 when none does
    response,      \* the answer to the request served by the last step, if it served one
    downloader,    \* which UFLPoliticalScienceDownloader object is in use (0: none yet)
    downloaded_files, \* its downloaded_files
    disk,          \* download_folder: the files in it
    calls,         \* the download_pdf calls made so far
    http_response, \* what session.get returned in the step just taken, if it returned
    extraction,    \* one pass of extract_metadata_background's loop body, in detail
    csv,           \* one call of generate_csv_from_results: its argument and its rows
    scan,          \* one call of get_pdf_links_from_page: the page and what is returned
    naming         \* the base filename download_pdf derives for one reference

pvars == <<jobs_status, job_folder, metadata_file, primo_file, newest, tasks, budget,
           running, response>>
dvars == <<downloader, downloaded_files, disk, calls, http_response>>
uvars == <<scan, naming>>
evars == <<extraction, csv, scan, naming>>
vars == <<jobs_status, job_folder, metadata_file, primo_file, newest, tasks, budget,
          running, response, downloader, downloaded_files, disk, calls, http_response,
          extraction, csv, scan, naming>>

\* What a request was answered with; NoAnswer after a step that served none.
\* A status answer carries the status and the progress of the entry.
Answer(request, answer) ==
    [request |-> request, answer |-> answer, status |-> "-", progress |-> -1]
NoAnswer == Answer("none", "none")

\* jobs_status before discover_syllabi has created the job's entry.  A counter
\* of -1 is Python's None; results_file and primo_results_file say whether the
\* key has been set.
NoJob == [status |-> "none", progress |-> 0, message |-> Msg("-", 0, 0),
          files_found |-> -1, files_downloaded |-> -1, files_processed |-> -1,
          results_file |-> FALSE, primo_results_file |-> FALSE]

\* A result file: absent, a JSON list of records, or cut short by a failed write.
NoFile == [state |-> "absent", recs |-> <<>>]
Corrupt == [state |-> "corrupt", recs |-> <<>>]
ListFile(recs) == [state |-> "list", recs |-> recs]

\* A record of a result file: the document, what its metadata holds under
\* reading_materials (a material kind), and the annotation the cross-reference
\* stage attached.
Annotations == {"none", "nomat", "found", "notfound", "error"}
Rec(d, mat) == [doc |-> d, mat |-> mat, ann |-> "none"]

TaskIds == 1 .. MaxTasks

\* The locals of a background task.  kind "none" is a slot not used yet.
\*   dept   department ("arts", "polisci")          (acquisition)
\*   i, n   loop index and length of the list the loop runs over
\*   ok     successful_downloads / successful_matches
\*   found  distinct links discovered on the source page(s), before any cap
\*   links  len(all_pdf_links)
\*   att    download_pdf calls made so far
\*   res    results (extraction), results being annotated (cross-reference)
\*   proc   processed_files (cross-reference)
\*   lastp  the last progress value this stage invocation wrote, -1 if none
\*          (the request handler's write counts for the stage it starts)
NoTask == [kind |-> "none", pc |-> "free", dept |-> "-", i |-> 0, n |-> 0, ok |-> 0,
           found |-> 0, links |-> 0, att |-> 0, res |-> <<>>, proc |-> 0, lastp |-> -1]

NewTask(kind, dept, lastp) == [NoTask EXCEPT !.kind = kind, !.pc = "scheduled",
                                            !.dept = dept, !.lastp = lastp]

FreeSlots == {t \in TaskIds : tasks[t].kind = "none"}
NextSlot == CHOOSE t \in FreeSlots : \A u \in FreeSlots : t <= u
\* background_tasks.add_task(...): one more task, scheduled to run after the
\* response.  At most MaxTasks are added in a behaviour.
CanAddTask == budget > 0
AddTask(task) == /\ tasks' = [tasks EXCEPT ![NextSlot] = task]
                 /\ budget' = budget - 1

Terminal == {"completed", "error"}
\* ------------------------------------------------------- initial state
\* app.py 100-106: jobs_status = {}, the two directories exist and hold nothing
\* of the job.
PipelineInit ==
    /\ jobs_status = NoJob
    /\ job_folder = [exists |-> FALSE, pdfs |-> {}]
    /\ metadata_file = NoFile
    /\ primo_file = NoFile
    /\ newest = "none"
    /\ tasks = [t \in TaskIds |-> NoTask]
    /\ budget = MaxTasks
    /\ running = 0
    /\ response = NoAnswer

\* No downloader of the standalone script is in use.
\* No answer of session.get at hand.  A content-type header is the list of its
\* parts, the media type first; a response without the header has none.
NoResponse == [call |-> 0, content_type |-> <<>>, length |-> 0]

DownloaderIdle ==
    /\ downloader = 0
    /\ downloaded_files = {}
    /\ disk = {}
    /\ calls = <<>>
    /\ http_response = NoResponse

\* ------------------------------------------------------------ metadata
\* The fields a caller can select and an extractor can report, and what an
\* extractor reports for one: a value, or JSON null.
FieldNames == {"instructor", "reading_materials"}
FieldValues == {"value", "null"}
\* The dictionaries an extractor can return
Mappings == UNION {[d -> FieldValues] : d \in SUBSET FieldNames}
EmptyMapping == [f \in {} |-> "Unknown"]
\* What a call of llm_extract_func or heuristic_func does: it raises, returns
\* a dictionary, or returns something that is not a container (None).
ExtractorOutcomes ==
    {[kind |-> "raise", map |-> EmptyMapping], [kind |-> "none", map |-> EmptyMapping]}
        \cup {[kind |-> "dict", map |-> m] : m \in Mappings}

NoExtraction ==
    [pc |-> "idle", selected_fields |-> {}, llm |-> [kind |-> "raise", map |-> EmptyMapping],
     heuristic |-> [kind |-> "raise", map |-> EmptyMapping],
     metadata |-> [kind |-> "unbound", map |-> EmptyMapping], results |-> <<>>]

\* no call of generate_csv_from_results has been made
NoCsv == [pc |-> "idle", results |-> <<>>, rows |-> <<>>, out |-> "-"]
\* no call of get_pdf_links_from_page has been made
NoScan == [pc |-> "idle", page |-> <<>>, fetch |-> "-", max_downloads |-> 0,
           result |-> <<>>]
\* download_pdf has derived no name
NoNaming == [pc |-> "idle", title |-> <<>>, url_filename |-> <<>>, base_filename |-> <<>>]
PureIdle == scan = NoScan /\ naming = NoNaming
ExtractionIdle == extraction = NoExtraction /\ csv = NoCsv /\ PureIdle

Init == PipelineInit /\ DownloaderIdle /\ ExtractionIdle

\* ------------------------------------------------------ request handlers
\* A handler runs when no task holds the event loop.
LoopFree == running = 0

\* app.py 184-208.  The job id is a fresh uuid4: the job is created once.
discover_syllabi(dept) ==
    /\ LoopFree
    /\ jobs_status.status = "none"
    /\ CanAddTask
    /\ job_folder' = [exists |-> TRUE, pdfs |-> {}]
    /\ jobs_status' = [NoJob EXCEPT !.status = "pending", !.progress = 0,
                                   !.message = Msg("StartDiscovery", 0, 0)]
    /\ AddTask(NewTask("acq", dept, 0))
    /\ response' = Answer("discover_syllabi", "started")
    /\ UNCHANGED <<metadata_file, primo_file, newest, running, dvars, evars>>

\* app.py 355-374
extract_metadata ==
    /\ LoopFree
    /\ IF jobs_status.status = "none" \/ ~job_folder.exists
       THEN /\ response' = Answer("extract_metadata", "not_found")
            /\ UNCHANGED <<jobs_status, tasks, budget>>
       ELSE /\ CanAddTask
            /\ jobs_status' = [jobs_status EXCEPT !.status = "processing", !.progress = 0,
                                                  !.message = Msg("StartExt", 0, 0)]
            /\ AddTask(NewTask("ext", "-", 0))
            /\ response' = Answer("extract_metadata", "started")
    /\ UNCHANGED <<job_folder, metadata_file, primo_file, newest, running, dvars, evars>>

\* app.py 501-532.  An empty list raises HTTPException(400) inside the try
\* block, which `except Exception` turns into a 500: rejected either way.
\* The cross-reference is started on whatever list the file holds.
EmptyListAccepted ==
    IF jobs_status.status = "none" THEN "not_found"
    ELSE IF jobs_status.status = "processing" /\ MentionsLibrary(jobs_status.message)
         THEN "already_running"
    ELSE IF metadata_file.state = "absent" THEN "not_found"
    ELSE IF metadata_file.state = "corrupt" THEN "bad_request"
    ELSE "started"

CheckPrimoAnswer ==
    IF jobs_status.status = "none" THEN "not_found"
    ELSE IF jobs_status.status = "processing" /\ MentionsLibrary(jobs_status.message)
         THEN "already_running"
    ELSE IF metadata_file.state = "absent" THEN "not_found"
    ELSE IF metadata_file.state = "corrupt" THEN "bad_request"
    ELSE IF metadata_file.recs = <<>> THEN "server_error"
    ELSE "started"

check_primo_resources ==
    /\ LoopFree
    /\ response' = Answer("check_primo_resources", CheckPrimoAnswer)
    /\ IF CheckPrimoAnswer = "started"
       THEN /\ CanAddTask
            /\ AddTask(NewTask("primo", "-", -1))
       ELSE UNCHANGED <<tasks, budget>>
    /\ UNCHANGED <<jobs_status, job_folder, metadata_file, primo_file, newest, running, dvars, evars>>

\* An entry whose job has ended is no longer found.
ForgetsEndedJobs == IF jobs_status.status \in {"none", "completed", "error"}
                    THEN "not_found" ELSE "status"

\* app.py 329-330: `job_id not in jobs_status`
GetJobStatusAnswer == IF jobs_status.status = "none" THEN "not_found" ELSE "status"

\* app.py 326-332
get_job_status ==
    /\ LoopFree
    /\ response' = IF GetJobStatusAnswer = "not_found"
                   THEN Answer("get_job_status", "not_found")
                   ELSE [Answer("get_job_status", "status") EXCEPT
                           !.status = jobs_status.status,
                           !.progress = jobs_status.progress]
    /\ UNCHANGED <<jobs_status, job_folder, metadata_file, primo_file, newest, tasks,
                   budget, running, dvars, evars>>

\* app.py 483-499: the cross-reference results if that file exists, else the
\* extraction results; json.load of a file that was cut short raises.
GetResultsAnswer ==
    IF primo_file.state # "absent"
    THEN (IF primo_file.state = "list" THEN "primo_results" ELSE "server_error")
    ELSE IF metadata_file.state # "absent"
         THEN (IF metadata_file.state = "list" THEN "metadata_results" ELSE "server_error")
    ELSE "not_found"

get_results ==
    /\ LoopFree
    /\ response' = Answer("get_results", GetResultsAnswer)
    /\ UNCHANGED <<jobs_status, job_folder, metadata_file, primo_file, newest, tasks,
                   budget, running, dvars, evars>>

\* app.py 627-642: the file is sent as it is
DownloadResultsAnswer ==
    IF jobs_status.status = "none" THEN "not_found"
    ELSE IF primo_file.state # "absent" THEN "primo_file"
    ELSE IF metadata_file.state # "absent" THEN "metadata_file"
    ELSE "not_found"

download_results ==
    /\ LoopFree
    /\ response' = Answer("download_results", DownloadResultsAnswer)
    /\ UNCHANGED <<jobs_status, job_folder, metadata_file, primo_file, newest, tasks,
                   budget, running, dvars, evars>>

\* --------------------------------- discover_and_download_pdfs (210-324)
\* Step of task t from pc `from`, while it holds the loop.
At(t, kind, from) == /\ running = t
                     /\ tasks[t].kind = kind
                     /\ tasks[t].pc = from

\* The task starts: the event loop is free and it takes it.
Starts(t, kind) == /\ running = 0
                   /\ tasks[t].kind = kind
                   /\ tasks[t].pc = "scheduled"

\* app.py 212-238
AcqStart(t) ==
    /\ Starts(t, "acq")
    /\ jobs_status' = [jobs_status EXCEPT !.status = "downloading", !.progress = 10,
                                          !.message = Msg("Discovering", 0, 0)]
    /\ tasks' = [tasks EXCEPT ![t].pc = "discover", ![t].lastp = 10]
    /\ running' = t
    /\ response' = NoAnswer
    /\ UNCHANGED <<budget, job_folder, metadata_file, primo_file, newest, dvars, evars>>

\* polisci_pdf_downloader.py 70-145: the number of links returned for a page
\* with `n` distinct PDF links; a failed fetch or parse returns [].
GetPdfLinksFromPage(n, fetched) == IF fetched THEN Min(n, MaxDownloads) ELSE 0

\* app.py 240-243
AcqDiscoverPolisci(t, env) ==
    /\ At(t, "acq", "discover")
    /\ tasks[t].dept = "polisci"
    /\ \E n \in 0 .. env.maxN, fetched \in BOOLEAN :
         LET k == GetPdfLinksFromPage(n, fetched) IN
         /\ jobs_status' = [jobs_status EXCEPT !.progress = 50,
                                               !.message = Msg("FoundPolisci", k, 0)]
         /\ tasks' = [tasks EXCEPT ![t].pc = "found", ![t].lastp = 50,
                                   ![t].found = IF fetched THEN n ELSE 0,
                                   ![t].links = k]
    /\ response' = NoAnswer
    /\ UNCHANGED <<budget, job_folder, metadata_file, primo_file, newest, running, dvars, evars>>

\* app.py 245-252: get_semester_links() of the Arts downloader returns a list
\* (an empty one is replaced by [url]) or raises.
AcqSemesterLinks(t) ==
    /\ At(t, "acq", "discover")
    /\ tasks[t].dept = "arts"
    /\ \E pages \in 1 .. MaxPages :
         /\ jobs_status' = [jobs_status EXCEPT !.progress = 20,
                                               !.message = Msg("Scanning", 0, 0)]
         /\ tasks' = [tasks EXCEPT ![t].pc = "scan", ![t].lastp = 20,
                                   ![t].i = 0, ![t].n = pages]
    /\ response' = NoAnswer
    /\ UNCHANGED <<budget, job_folder, metadata_file, primo_file, newest, running, dvars, evars>>

\* app.py 254-264: one page scanned; `c` links not seen on an earlier page.
AcqScanPage(t, env) ==
    /\ At(t, "acq", "scan")
    /\ tasks[t].i < tasks[t].n
    /\ \E c \in 0 .. (env.maxN - tasks[t].found) :
         LET p == ScanProgress(tasks[t].i, tasks[t].n) IN
         /\ jobs_status' = [jobs_status EXCEPT !.progress = p,
                                 !.message = Msg("Scanned", tasks[t].i + 1, tasks[t].n)]
         /\ tasks' = [tasks EXCEPT ![t].lastp = p,
                                   ![t].i = @ + 1,
                                   ![t].found = @ + c,
                                   ![t].links = @ + c,
                                   ![t].pc = IF tasks[t].i + 1 = tasks[t].n
                                             THEN "found" ELSE "scan"]
    /\ response' = NoAnswer
    /\ UNCHANGED <<budget, job_folder, metadata_file, primo_file, newest, running, dvars, evars>>

\* app.py 266-267
AcqFound(t) ==
    /\ At(t, "acq", "found")
    /\ jobs_status' = [jobs_status EXCEPT !.files_found = tasks[t].links,
                                          !.progress = 50,
                                          !.message = Msg("Found", tasks[t].links, 0)]
    /\ tasks' = [tasks EXCEPT ![t].pc = "limit", ![t].lastp = 50]
    /\ response' = NoAnswer
    /\ UNCHANGED <<budget, job_folder, metadata_file, primo_file, newest, running, dvars, evars>>

\* Every link found is downloaded: what the truncation of lines 269-277 prevents.
UnlimitedLinks(dept, links) == links

\* app.py 269-277: len(limited_pdf_links)
LimitedLinks(dept, links) == IF dept = "polisci" THEN links ELSE Min(links, MaxDownloads)

\* app.py 269-280
AcqLimit(t) ==
    /\ At(t, "acq", "limit")
    /\ LET n == LimitedLinks(tasks[t].dept, tasks[t].links) IN
         /\ jobs_status' = [jobs_status EXCEPT !.progress = 50,
                                               !.message = Msg("Ready", n, tasks[t].links)]
         /\ tasks' = [tasks EXCEPT ![t].pc = IF n = 0 THEN "complete" ELSE "step0",
                                   ![t].lastp = 50,
                                   ![t].i = 0, ![t].n = n, ![t].ok = 0]
    /\ response' = NoAnswer
    /\ UNCHANGED <<budget, job_folder, metadata_file, primo_file, newest, running, dvars, evars>>

\* app.py 290-296, step 0 and step 1 (step 2 only sleeps)
AcqStep(t, step) ==
    /\ At(t, "acq", IF step = 0 THEN "step0" ELSE "step1")
    /\ LET p == StepProgress(tasks[t].i, tasks[t].n, step) IN
         /\ jobs_status' = [jobs_status EXCEPT !.progress = p,
                !.message = Msg(IF step = 0 THEN "DlStarting" ELSE "DlDownloading",
                                tasks[t].i + 1, tasks[t].n)]
         /\ tasks' = [tasks EXCEPT ![t].pc = IF step = 0 THEN "step1" ELSE "download",
                                   ![t].lastp = p]
    /\ response' = NoAnswer
    /\ UNCHANGED <<budget, job_folder, metadata_file, primo_file, newest, running, dvars, evars>>

\* The loop stops at the first reference whose download fails.
StopOnFailure(out, i, n) == IF out # "ok" \/ i + 1 = n THEN "complete" ELSE "step0"

\* app.py 283, 307-311: the except is inside the loop, so the loop goes on to
\* the next reference whatever the call did.
AfterDownload(out, i, n) == IF i + 1 = n THEN "complete" ELSE "step0"

\* Every call is counted as a download.
Attempted(out) == TRUE

\* app.py 298-300: success is download_pdf returning True
Succeeded(out) == out = "ok"

\* app.py 298-311: the call, files_downloaded and the file's last progress
\* update, on the normal path and on the path of `except Exception`.  The
\* task's res is what the call did.
AcqDownload(t, env) ==
    /\ At(t, "acq", "download")
    /\ \E out \in DownloadOutcomes(tasks[t].dept) \cap env.downloads :
         LET ok == tasks[t].ok + (IF Succeeded(out) THEN 1 ELSE 0)
             p  == EndProgress(tasks[t].i, tasks[t].n)
         IN
         /\ job_folder' = IF out \in {"ok", "partial"}
                          THEN [job_folder EXCEPT !.pdfs = @ \cup {tasks[t].i + 1}]
                          ELSE job_folder
         /\ jobs_status' = [jobs_status EXCEPT !.files_downloaded = ok,
                                               !.progress = p,
                                               !.message = Msg("Downloaded", ok, tasks[t].n)]
         /\ tasks' = [tasks EXCEPT ![t].ok = ok, ![t].att = @ + 1, ![t].lastp = p,
                                   ![t].i = @ + 1, ![t].res = <<out>>,
                                   ![t].pc = AfterDownload(out, tasks[t].i, tasks[t].n)]
    /\ response' = NoAnswer
    /\ UNCHANGED <<budget, metadata_file, primo_file, newest, running, dvars, evars>>

\* app.py 313-319
AcqComplete(t) ==
    /\ At(t, "acq", "complete")
    /\ jobs_status' = [jobs_status EXCEPT !.files_downloaded = tasks[t].ok,
                                          !.status = "completed",
                                          !.progress = 100,
                                          !.message = Msg("DownloadComplete", tasks[t].ok,
                                                          tasks[t].n)]
    /\ tasks' = [tasks EXCEPT ![t] = NoTask]
    /\ running' = 0
    /\ response' = NoAnswer
    /\ UNCHANGED <<budget, job_folder, metadata_file, primo_file, newest, dvars, evars>>

\* app.py 321-324: get_semester_links() or get_pdf_links_from_page() of the
\* Arts downloader raised.
AcqError(t) ==
    /\ running = t
    /\ tasks[t].kind = "acq"
    /\ tasks[t].dept = "arts"
    /\ \/ tasks[t].pc = "discover"
       \/ tasks[t].pc = "scan" /\ tasks[t].i < tasks[t].n
    /\ jobs_status' = [jobs_status EXCEPT !.status = "error",
                                          !.message = Msg("Error", 0, 0),
                                          !.progress = 0]
    /\ tasks' = [tasks EXCEPT ![t] = NoTask]
    /\ running' = 0
    /\ response' = NoAnswer
    /\ UNCHANGED <<budget, job_folder, metadata_file, primo_file, newest, dvars, evars>>

AcqTask(t, env) ==
    \/ AcqStart(t)
    \/ AcqDiscoverPolisci(t, env)
    \/ AcqSemesterLinks(t)
    \/ AcqScanPage(t, env)
    \/ AcqFound(t)
    \/ AcqLimit(t)
    \/ AcqStep(t, 0)
    \/ AcqStep(t, 1)
    \/ AcqDownload(t, env)
    \/ AcqComplete(t)
    \/ AcqError(t)
\* ---------------------------------- extract_metadata_background (376-481)
\* list(job_folder.glob("*.pdf")): the documents in the order of their names
RECURSIVE SortedDocs(_)
SortedDocs(S) ==
    IF S = {} THEN <<>>
    ELSE LET d == CHOOSE x \in S : \A y \in S : x <= y
         IN <<d>> \o SortedDocs(S \ {d})

PdfFiles == SortedDocs(job_folder.pdfs)

\* The same start, but the branch for a folder without PDF files returns
\* without writing a status.
ExtStartSilent(t) ==
    /\ Starts(t, "ext")
    /\ IF PdfFiles = <<>>
       THEN /\ tasks' = [tasks EXCEPT ![t] = NoTask]
            /\ running' = 0
            /\ UNCHANGED jobs_status
       ELSE /\ tasks' = [tasks EXCEPT ![t].pc = "file", ![t].i = 0,
                                      ![t].n = Len(PdfFiles), ![t].res = <<>>]
            /\ running' = t
            /\ UNCHANGED jobs_status
    /\ response' = NoAnswer
    /\ UNCHANGED <<budget, job_folder, metadata_file, primo_file, newest, dvars, evars>>

\* app.py 378-390
ExtStart(t) ==
    /\ Starts(t, "ext")
    /\ IF PdfFiles = <<>>
       THEN /\ jobs_status' = [jobs_status EXCEPT !.status = "error",
                                                  !.message = Msg("NoPdfFiles", 0, 0)]
            /\ tasks' = [tasks EXCEPT ![t] = NoTask]
            /\ running' = 0
       ELSE /\ tasks' = [tasks EXCEPT ![t].pc = "file", ![t].i = 0,
                                      ![t].n = Len(PdfFiles), ![t].res = <<>>]
            /\ running' = t
            /\ UNCHANGED jobs_status
    /\ response' = NoAnswer
    /\ UNCHANGED <<budget, job_folder, metadata_file, primo_file, newest, dvars, evars>>

\* where the loop of a task goes after item i
AfterItem(t, loop, after) == IF tasks[t].i + 1 = tasks[t].n THEN after ELSE loop

\* app.py 394-398
ExtFileBegin(t) ==
    /\ At(t, "ext", "file")
    /\ LET p == ExtStartProgress(tasks[t].i, tasks[t].n) IN
         /\ jobs_status' = [jobs_status EXCEPT !.progress = p,
                               !.message = Msg("ExtProcessing", PdfFiles[tasks[t].i + 1],
                                               tasks[t].n),
                               !.files_processed = tasks[t].i]
         /\ tasks' = [tasks EXCEPT ![t].pc = "text", ![t].lastp = p]
    /\ response' = NoAnswer
    /\ UNCHANGED <<budget, job_folder, metadata_file, primo_file, newest, running, dvars, evars>>

\* app.py 459-466: the file's `except Exception`
ExtFileFailed(t) ==
    LET p == ExtDoneProgress(tasks[t].i, tasks[t].n) IN
    /\ jobs_status' = [jobs_status EXCEPT !.progress = p,
                          !.message = Msg("ExtErrorFile", PdfFiles[tasks[t].i + 1],
                                          tasks[t].n),
                          !.files_processed = tasks[t].i + 1]
    /\ tasks' = [tasks EXCEPT ![t].pc = AfterItem(t, "file", "save"),
                              ![t].i = @ + 1, ![t].lastp = p]

\* app.py 400-419: extract_text_func returns no text (the file is skipped),
\* raises, or returns text (tables are best effort)
ExtText(t) ==
    /\ At(t, "ext", "text")
    /\ \E out \in {"empty", "raise", "text"} :
         CASE out = "empty" ->
                /\ tasks' = [tasks EXCEPT ![t].pc = AfterItem(t, "file", "save"),
                                          ![t].i = @ + 1]
                /\ UNCHANGED jobs_status
           [] out = "raise" -> ExtFileFailed(t)
           [] out = "text" ->
                LET p == ExtAiProgress(tasks[t].i, tasks[t].n) IN
                /\ jobs_status' = [jobs_status EXCEPT !.progress = p,
                                      !.message = Msg("ExtAi", PdfFiles[tasks[t].i + 1],
                                                      tasks[t].n)]
                /\ tasks' = [tasks EXCEPT ![t].pc = "ai", ![t].lastp = p]
    /\ response' = NoAnswer
    /\ UNCHANGED <<budget, job_folder, metadata_file, primo_file, newest, running, dvars, evars>>

\* app.py 421-457: the extractor chain yields a metadata mapping, whose
\* reading_materials is of kind `mat`, and the record is appended; or the
\* chain yields something that is no mapping and filtering it raises.
ExtRecord(t, env) ==
    /\ At(t, "ext", "ai")
    /\ \/ \E mat \in env.mats :
            LET p == ExtDoneProgress(tasks[t].i, tasks[t].n) IN
            /\ jobs_status' = [jobs_status EXCEPT !.progress = p,
                                  !.message = Msg("ExtCompleted", PdfFiles[tasks[t].i + 1],
                                                  tasks[t].n),
                                  !.files_processed = tasks[t].i + 1]
            /\ tasks' = [tasks EXCEPT ![t].pc = AfterItem(t, "file", "save"),
                                      ![t].i = @ + 1, ![t].lastp = p,
                                      ![t].res = Append(@, Rec(PdfFiles[tasks[t].i + 1], mat))]
       \/ ExtFileFailed(t)
    /\ response' = NoAnswer
    /\ UNCHANGED <<budget, job_folder, metadata_file, primo_file, newest, running, dvars, evars>>

\* json.dump(results, f) into open(file, 'w')
\* The status is set although nothing has been written.
NotWritten(file, recs, out) == file

Written(file, recs, out) ==
    CASE out = "ok" -> ListFile(recs)
      [] out = "unwritten" -> file
      [] out = "cut" -> Corrupt

\* app.py 468-481
ExtSave(t, env) ==
    /\ At(t, "ext", "save")
    /\ \E out \in env.writes :
         /\ metadata_file' = Written(metadata_file, tasks[t].res, out)
         /\ newest' = IF out = "unwritten" THEN newest ELSE "metadata"
         /\ IF out = "ok"
            THEN /\ jobs_status' = [jobs_status EXCEPT !.status = "completed",
                                       !.progress = 100,
                                       !.message = Msg("ExtComplete", Len(tasks[t].res), 0),
                                       !.files_processed = Len(tasks[t].res),
                                       !.results_file = TRUE]
                 /\ tasks' = [tasks EXCEPT ![t] = NoTask]
            ELSE /\ jobs_status' = [jobs_status EXCEPT !.status = "error",
                                       !.message = Msg("Error", 0, 0)]
                 /\ tasks' = [tasks EXCEPT ![t] = NoTask]
    /\ running' = 0
    /\ response' = NoAnswer
    /\ UNCHANGED <<budget, job_folder, primo_file, dvars, evars>>

ExtTask(t, env) ==
    \/ ExtStart(t)
    \/ ExtFileBegin(t)
    \/ ExtText(t)
    \/ ExtRecord(t, env)
    \/ ExtSave(t, env)

\* --------------------------------------- check_primo_background (534-625)
\* app.py 536-558
PrimoStart(t) ==
    /\ Starts(t, "primo")
    /\ IF metadata_file.state = "list" /\ metadata_file.recs # <<>>
       THEN /\ jobs_status' = [jobs_status EXCEPT !.status = "processing",
                                                  !.progress = 0,
                                                  !.message = Msg("StartLib", 0, 0)]
            /\ tasks' = [tasks EXCEPT ![t].pc = "record", ![t].lastp = 0,
                                      ![t].res = metadata_file.recs,
                                      ![t].n = Len(metadata_file.recs),
                                      ![t].i = 0, ![t].proc = 0, ![t].ok = 0]
            /\ running' = t
       ELSE /\ jobs_status' = [jobs_status EXCEPT !.status = "error",
                                  !.message = Msg(CASE metadata_file.state = "absent"
                                                         -> "NoResultsFile"
                                                    [] metadata_file.state = "corrupt"
                                                         -> "InvalidResultsFile"
                                                    [] OTHER -> "NoResults", 0, 0)]
            /\ tasks' = [tasks EXCEPT ![t] = NoTask]
            /\ running' = 0
    /\ response' = NoAnswer
    /\ UNCHANGED <<budget, job_folder, metadata_file, primo_file, newest, dvars, evars>>

\* Every record is looked up.
AlwaysLookedUp(rec) == FALSE

\* app.py 568-569: `not reading_materials`
NoMaterials(rec) == rec.mat = "empty"

\* app.py 561-579: up to `continue`, or up to the await of the lookup, where
\* the task gives up the event loop
PrimoRecord(t) ==
    /\ At(t, "primo", "record")
    /\ LET p   == PrimoProgress(tasks[t].i, tasks[t].n)
           rec == tasks[t].res[tasks[t].i + 1]
       IN
         /\ jobs_status' = [jobs_status EXCEPT !.progress = p,
                               !.message = Msg("Checking", rec.doc, tasks[t].n)]
         /\ IF NoMaterials(rec)
            THEN /\ tasks' = [tasks EXCEPT ![t].lastp = p,
                                 ![t].res[tasks[t].i + 1].ann = "nomat",
                                 ![t].i = @ + 1,
                                 ![t].pc = AfterItem(t, "record", "final")]
                 /\ UNCHANGED running
            ELSE /\ tasks' = [tasks EXCEPT ![t].lastp = p, ![t].pc = "await"]
                 /\ running' = 0
    /\ response' = NoAnswer
    /\ UNCHANGED <<budget, job_folder, metadata_file, primo_file, newest, dvars, evars>>

\* The loop is left at the first lookup that fails.
AbortOnError(out, next) == IF out = "error" THEN "final" ELSE next

\* app.py 560, 591-599: the except is inside the loop, which goes on with the
\* next record whatever the lookup did.
AfterLookup(out, next) == next

\* app.py 579-599: check_metadata_availability returns with matches
\* ("found"), returns without ("notfound"), or raises or returns something
\* malformed ("error"); the task has the event loop again.
\* A lookup that failed leaves its record as it was read.
BareOnError(out) == IF out = "error" THEN "none" ELSE out

\* app.py 580-584 and 593-598: primo_check and library_matches are set from
\* the lookup's answer, or by the except
LookupAnnotation(out) == out

PrimoLookup(t, env) ==
    /\ running = 0
    /\ tasks[t].kind = "primo"
    /\ tasks[t].pc = "await"
    /\ \E out \in env.lookups :
         tasks' = [tasks EXCEPT ![t].res[tasks[t].i + 1].ann = LookupAnnotation(out),
                                ![t].ok = @ + (IF out = "found" THEN 1 ELSE 0),
                                ![t].proc = @ + 1,
                                ![t].i = @ + 1,
                                ![t].pc = AfterLookup(out, AfterItem(t, "record", "final"))]
    /\ running' = t
    /\ response' = NoAnswer
    /\ UNCHANGED <<budget, jobs_status, job_folder, metadata_file, primo_file, newest, dvars, evars>>

\* app.py 601-603
PrimoFinal(t) ==
    /\ At(t, "primo", "final")
    /\ jobs_status' = [jobs_status EXCEPT !.progress = 95,
                                          !.message = Msg("SavingLib", 0, 0)]
    /\ tasks' = [tasks EXCEPT ![t].pc = "save", ![t].lastp = 95]
    /\ response' = NoAnswer
    /\ UNCHANGED <<budget, job_folder, metadata_file, primo_file, newest, running, dvars, evars>>

\* app.py 605-625
PrimoSave(t, env) ==
    /\ At(t, "primo", "save")
    /\ \E out \in env.writes :
         /\ primo_file' = Written(primo_file, tasks[t].res, out)
         /\ newest' = IF out = "unwritten" THEN newest ELSE "primo"
         /\ IF out = "ok"
            THEN /\ jobs_status' = [jobs_status EXCEPT !.status = "completed",
                                       !.progress = 100,
                                       !.message = Msg("LibDone", tasks[t].ok, tasks[t].proc),
                                       !.primo_results_file = TRUE]
                 /\ tasks' = [tasks EXCEPT ![t] = NoTask]
            ELSE /\ jobs_status' = [jobs_status EXCEPT !.status = "error",
                                       !.message = Msg("LibFailed", 0, 0)]
                 /\ tasks' = [tasks EXCEPT ![t] = NoTask]
    /\ running' = 0
    /\ response' = NoAnswer
    /\ UNCHANGED <<budget, job_folder, metadata_file, dvars, evars>>

PrimoTask(t, env) ==
    \/ PrimoStart(t)
    \/ PrimoRecord(t)
    \/ PrimoLookup(t, env)
    \/ PrimoFinal(t)
    \/ PrimoSave(t, env)

\* ------------------------------------------------------- specifications
Departments == {"arts", "polisci"}

Requests ==
    \/ \E dept \in Departments : discover_syllabi(dept)
    \/ extract_metadata
    \/ check_primo_resources
    \/ get_results
    \/ download_results

TaskStep(env) ==
    \E t \in TaskIds : AcqTask(t, env) \/ ExtTask(t, env) \/ PrimoTask(t, env)

Next == Requests \/ TaskStep(JobEnv)

Spec == Init /\ [][Next]_vars

\* The pipeline with a client that polls the job's status.
PollNext == Next \/ get_job_status

SpecPoll == Init /\ [][PollNext]_vars

\* While a task is ready some task takes a step: the event loop runs a ready
\* task when it has one, and every call a task waits for returns or raises.
FairNext == Requests \/ TaskStep(LiveEnv)
FairSpec == Init /\ [][FairNext]_vars /\ WF_vars(TaskStep(LiveEnv))

\* One acquisition, on pages that may hold more links than the download cap.
AcqNext ==
    \/ \E dept \in Departments : discover_syllabi(dept)
    \/ \E t \in TaskIds : AcqTask(t, AcqEnv)

SpecAcq == Init /\ [][AcqNext]_vars

\* A job whose acquisition fetched documents 1 .. n and whose extraction then
\* completed with a record for each of the first k of them.
RECURSIVE RecordLists(_, _)
RecordLists(k, mats) ==
    IF k = 0 THEN {<<>>}
    ELSE {Append(l, Rec(k, m)) : l \in RecordLists(k - 1, mats), m \in mats}

ExtractedInit ==
    \E n \in 1 .. MaxJobDocs, k \in 0 .. MaxJobDocs :
      /\ k <= n
      /\ \E recs \in RecordLists(k, XrefEnv.mats) :
           /\ jobs_status = [NoJob EXCEPT !.status = "completed", !.progress = 100,
                                          !.message = Msg("ExtComplete", k, 0),
                                          !.files_found = n, !.files_downloaded = n,
                                          !.files_processed = k, !.results_file = TRUE]
           /\ job_folder = [exists |-> TRUE, pdfs |-> 1 .. n]
           /\ metadata_file = ListFile(recs)
      /\ primo_file = NoFile
      /\ newest = "metadata"
      /\ tasks = [t \in TaskIds |-> NoTask]
      /\ budget = MaxXrefTasks
      /\ running = 0
      /\ response = NoAnswer

XrefNext ==
    \/ extract_metadata
    \/ check_primo_resources
    \/ get_results
    \/ download_results
    \/ \E t \in TaskIds : ExtTask(t, XrefEnv) \/ PrimoTask(t, XrefEnv)

XrefInit == ExtractedInit /\ DownloaderIdle /\ ExtractionIdle

SpecXref == XrefInit /\ [][XrefNext]_vars

\* SpecRerun: stages run again on a job that has results, every record with
\* reading materials, every write succeeding or failing
RerunEnv == [maxN |-> MaxJobDocs, downloads |-> {"ok"}, mats |-> {"items"},
             lookups |-> {"found", "error"}, writes |-> WriteOutcomes]

\* A job whose acquisition fetched documents 1 .. n and whose extraction then
\* completed with a record for each of them.
RerunInit ==
    /\ \E n \in 1 .. MaxJobDocs :
         \E recs \in RecordLists(n, RerunEnv.mats) :
           /\ jobs_status = [NoJob EXCEPT !.status = "completed", !.progress = 100,
                                          !.message = Msg("ExtComplete", n, 0),
                                          !.files_found = n, !.files_downloaded = n,
                                          !.files_processed = n, !.results_file = TRUE]
           /\ job_folder = [exists |-> TRUE, pdfs |-> 1 .. n]
           /\ metadata_file = ListFile(recs)
    /\ primo_file = NoFile
    /\ newest = "metadata"
    /\ tasks = [t \in TaskIds |-> NoTask]
    /\ budget = MaxXrefTasks
    /\ running = 0
    /\ response = NoAnswer
    /\ DownloaderIdle
    /\ ExtractionIdle

RerunNext ==
    \/ extract_metadata
    \/ check_primo_resources
    \/ \E t \in TaskIds : ExtTask(t, RerunEnv) \/ PrimoTask(t, RerunEnv)

SpecRerun == RerunInit /\ [][RerunNext]_vars
\* ------------------------------------ polisci_pdf_downloader.py, download_pdf
\* A file name is a stem followed by the counters appended to it and the
\* extension: "polisci_a.pdf" is [stem |-> "a", sfx |-> <<>>], and
\* "polisci_a_1.pdf" is [stem |-> "a", sfx |-> <<1>>].
Name(stem, sfx) == [stem |-> stem, sfx |-> sfx]
NoName == Name("-", <<>>)

\* The references download_pdf is called with; a link's content is named by
\* the reference itself.  The first two have the same title, the third one's
\* title is that title with "_1" at its end.
Refs == {1, 2, 3}

\* polisci_pdf_downloader.py 164-177: base_filename of a reference
BaseFilename(r) ==
    CASE r \in {1, 2} -> Name("a", <<>>)
      [] OTHER -> Name("a", <<1>>)

\* polisci_pdf_downloader.py 184-185: f"{name}_{counter}{ext}"
WithCounter(base, counter) == Name(base.stem, Append(base.sfx, counter))

\* polisci_pdf_downloader.py 181-186: the first of base, base_1, base_2, ...
\* that is not in downloaded_files
RECURSIVE NextUnclaimed(_, _, _)
NextUnclaimed(base, claimed, counter) ==
    IF WithCounter(base, counter) \in claimed
    THEN NextUnclaimed(base, claimed, counter + 1)
    ELSE WithCounter(base, counter)

\* A resolution that never looks at downloaded_files: what the loop of lines
\* 183-186 is there to prevent.
UncheckedFilename(base, claimed) == base

ResolveFilename(base, claimed) ==
    IF base \in claimed THEN NextUnclaimed(base, claimed, 1) ELSE base

\* The folder: a file has a name, holds the content of a reference, and is
\* whole or was cut short.
File(name, ref, whole) == [name |-> name, ref |-> ref, whole |-> whole]
Exists(name) == \E f \in disk : f.name = name
\* open(file_path, 'wb') and f.write(...): the file is replaced
Put(name, ref, whole) == {f \in disk : f.name # name} \cup {File(name, ref, whole)}
\* the folder holds the whole document of reference r
HasDocument(r) == \E f \in disk : f.ref = r /\ f.whole

\* A download_pdf call.
\*   pc       "claim", "get", "store", "release", "returned"
\*   obj      the downloader object it was made on
\*   filename the name it resolved, NoName before
\*   result   what it returned
NewCall(r) == [pc |-> "claim", ref |-> r, obj |-> downloader, filename |-> NoName,
               result |-> FALSE]

CallIds == 1 .. Len(calls)
Active == {c \in CallIds : calls[c].pc # "returned"}

\* UFLPoliticalScienceDownloader(...): a new object on the same folder, once
\* the calls on the one before have returned (there is one downloader at a time).
NewDownloader ==
    /\ Active = {}
    /\ downloader = 0 \/ \E c \in CallIds : calls[c].obj = downloader
    /\ downloader' = downloader + 1
    /\ downloaded_files' = {}
    /\ http_response' = NoResponse
    /\ UNCHANGED <<disk, calls, pvars, evars>>

\* polisci_pdf_downloader.py 259-264: a worker thread of the pool takes up
\* download_pdf(pdf_info); the pool has max_workers threads.
DlCall(r, env) ==
    /\ downloader > 0
    /\ Len(calls) < env.calls
    /\ Cardinality(Active) < env.workers
    /\ calls' = Append(calls, NewCall(r))
    /\ http_response' = NoResponse
    /\ UNCHANGED <<downloader, downloaded_files, disk, pvars, evars>>

\* polisci_pdf_downloader.py 179-197: the block under self.lock
\* The name is resolved and not recorded.
NotAdded(claimed, filename) == claimed

\* polisci_pdf_downloader.py 190 and 194: self.downloaded_files.add(filename)
Added(claimed, filename) == claimed \cup {filename}

DlClaim(c) ==
    /\ calls[c].pc = "claim"
    /\ LET filename == ResolveFilename(BaseFilename(calls[c].ref), downloaded_files) IN
         /\ downloaded_files' = Added(downloaded_files, filename)
         /\ calls' = [calls EXCEPT ![c].filename = filename,
                                   ![c].pc = IF Exists(filename) THEN "returned" ELSE "get",
                                   ![c].result = Exists(filename)]
    /\ http_response' = NoResponse
    /\ UNCHANGED <<downloader, disk, pvars, evars>>

\* The content-type headers and the body lengths of the answers
ContentTypes == {<<>>, <<"text/html">>, <<"application/pdf">>, <<"Application/PDF">>,
                 <<"application/pdf", "charset=binary">>}
BodyLengths == {0, MinPdfBytes - 1, MinPdfBytes, 4 * MinPdfBytes}
AllResponses == [content_type : ContentTypes, length : BodyLengths]
\* One answer that is a PDF and one that is an error page
SomeResponses == {[content_type |-> <<"application/pdf">>, length |-> 4 * MinPdfBytes],
                  [content_type |-> <<"text/html">>, length |-> 0]}

\* SpecDL: the pool's worker threads; an answer is either of two, and only
\* what the call does with it is kept (its pc)
PoolEnv == [workers |-> MaxWorkers, responses |-> SomeResponses, kept |-> FALSE,
            calls |-> MaxCalls]
\* SpecSeq: one call at a time, every answer, kept for the step that follows
SeqEnv == [workers |-> 1, responses |-> AllResponses, kept |-> TRUE, calls |-> MaxCalls]
\* SpecRun: run() submits more references than its pool has threads
WidePool == [workers |-> MaxSubmitted, responses |-> SomeResponses, kept |-> FALSE,
             calls |-> MaxSubmitted]
RunEnv == [workers |-> MaxWorkers, responses |-> SomeResponses, kept |-> FALSE,
           calls |-> MaxSubmitted]
\* the references run() submits have one title, so that every call after the
\* first resolves a name that is taken; SpecRun does not tell their contents
\* apart
RunRefs == {1}

\* str.lower(), on one part of the header
Lower(part) == IF part = "Application/PDF" THEN "application/pdf" ELSE part

\* polisci_pdf_downloader.py 205-206: 'application/pdf' in content_type
DeclaresPdf(content_type) ==
    \E k \in 1 .. Len(content_type) : Lower(content_type[k]) = "application/pdf"

\* The answer is refused when either test fails.
RejectedEither(resp) == ~DeclaresPdf(resp.content_type) \/ resp.length < MinPdfBytes

\* polisci_pdf_downloader.py 206
Rejected(resp) == ~DeclaresPdf(resp.content_type) /\ resp.length < MinPdfBytes

\* polisci_pdf_downloader.py 199-210: session.get or raise_for_status raises,
\* or the answer is refused, or it goes on to be written
DlGet(c, env) ==
    /\ calls[c].pc = "get"
    /\ \/ /\ calls' = [calls EXCEPT ![c].pc = "release"]
          /\ http_response' = NoResponse
       \/ \E resp \in env.responses :
            /\ calls' = [calls EXCEPT ![c].pc = IF Rejected(resp) THEN "release" ELSE "store"]
            /\ http_response' = IF env.kept
                                THEN [call |-> c, content_type |-> resp.content_type,
                                      length |-> resp.length]
                                ELSE NoResponse
    /\ UNCHANGED <<downloader, downloaded_files, disk, pvars, evars>>

\* polisci_pdf_downloader.py 213-218: open(file_path, 'wb') raises and leaves
\* no file; or it creates the file and f.write(response.content) raises, which
\* leaves the file cut short; or the document is written and the call returns
\* True.  The name is in downloaded_files all along, so no other call of this
\* downloader looks at the file in between.
DlStore(c) ==
    /\ calls[c].pc = "store"
    /\ \/ /\ calls' = [calls EXCEPT ![c].pc = "release"]
          /\ UNCHANGED disk
       \/ /\ disk' = Put(calls[c].filename, calls[c].ref, FALSE)
          /\ calls' = [calls EXCEPT ![c].pc = "release"]
       \/ /\ disk' = Put(calls[c].filename, calls[c].ref, TRUE)
          /\ calls' = [calls EXCEPT ![c].pc = "returned", ![c].result = TRUE]
    /\ http_response' = NoResponse
    /\ UNCHANGED <<downloader, downloaded_files, pvars, evars>>

\* polisci_pdf_downloader.py 208-210 and 220-226: the name is discarded under
\* the lock and the call returns False
DlRelease(c) ==
    /\ calls[c].pc = "release"
    /\ downloaded_files' = downloaded_files \ {calls[c].filename}
    /\ calls' = [calls EXCEPT ![c].pc = "returned", ![c].result = FALSE]
    /\ http_response' = NoResponse
    /\ UNCHANGED <<downloader, disk, pvars, evars>>

DlNext ==
    \/ NewDownloader
    \/ \E r \in Refs : DlCall(r, PoolEnv)
    \/ \E c \in CallIds : DlClaim(c)
    \/ \E c \in CallIds : DlGet(c, PoolEnv)
    \/ \E c \in CallIds : DlStore(c)
    \/ \E c \in CallIds : DlRelease(c)

SpecDL == Init /\ [][DlNext]_vars

\* download_pdf called for one reference after the other, as the loop of
\* app.py 283-298 calls it, with every answer session.get can give.
SeqNext ==
    \/ NewDownloader
    \/ \E r \in Refs : DlCall(r, SeqEnv)
    \/ \E c \in CallIds : DlClaim(c)
    \/ \E c \in CallIds : DlGet(c, SeqEnv)
    \/ \E c \in CallIds : DlStore(c)
    \/ \E c \in CallIds : DlRelease(c)

SpecSeq == Init /\ [][SeqNext]_vars

\* polisci_pdf_downloader.py 228-282: run() makes one downloader's pool of
\* max_workers threads work through every reference of the page.
RunInit ==
    /\ PipelineInit
    /\ ExtractionIdle
    /\ downloader = 1
    /\ downloaded_files = {}
    /\ disk = {}
    /\ calls = <<>>
    /\ http_response = NoResponse

RunNext ==
    \/ \E r \in RunRefs : DlCall(r, RunEnv)
    \/ \E c \in CallIds : DlClaim(c)
    \/ \E c \in CallIds : DlGet(c, RunEnv)
    \/ \E c \in CallIds : DlStore(c)
    \/ \E c \in CallIds : DlRelease(c)

SpecRun == RunInit /\ [][RunNext]_vars

\* ------------------- extract_metadata_background, one document (421-466)
\* The pass for one document whose text is not empty, from the call of the
\* LLM extractor on.  selected_fields is the caller's selection; what the
\* two extractors would do with the text is fixed by the text.
ExtractionInputs ==
    \E sel \in SUBSET FieldNames, l \in ExtractorOutcomes, h \in ExtractorOutcomes :
        /\ extraction = [NoExtraction EXCEPT !.pc = "llm", !.selected_fields = sel,
                                             !.llm = l, !.heuristic = h]
        /\ csv = NoCsv
        /\ PureIdle

FieldsInit == PipelineInit /\ DownloaderIdle /\ ExtractionInputs

\* Where an exception raised at a place of the loop body is caught: by the
\* except of the LLM call (427), by the except of the heuristic call (434),
\* or by the except of the loop body (459).
OnRaiseUnguarded(site) ==
    CASE site = "llm" -> "heuristic"
      [] site = "heuristic" -> "escaped"
      [] OTHER -> "file_except"

OnRaise(site) ==
    CASE site = "llm" -> "heuristic"
      [] site = "heuristic" -> "unknown"
      [] OTHER -> "file_except"

\* 421-428: metadata = llm_extract_func(text)
FldLlm ==
    /\ extraction.pc = "llm"
    /\ extraction' =
          IF extraction.llm.kind = "raise"
          THEN [extraction EXCEPT !.pc = OnRaise("llm")]
          ELSE [extraction EXCEPT !.pc = "filter", !.metadata = extraction.llm]
    /\ UNCHANGED <<pvars, dvars, csv, uvars>>

\* 429-433: metadata = heuristic_func(text)
FldHeuristic ==
    /\ extraction.pc = "heuristic"
    /\ extraction' =
          IF extraction.heuristic.kind = "raise"
          THEN [extraction EXCEPT !.pc = OnRaise("heuristic")]
          ELSE [extraction EXCEPT !.pc = "filter", !.metadata = extraction.heuristic]
    /\ UNCHANGED <<pvars, dvars, csv, uvars>>

\* 434-438: every selected field is "Unknown"
AllUnknown(selected) == [f \in selected |-> "Unknown"]

FldUnknown ==
    /\ extraction.pc = "unknown"
    /\ extraction' = [extraction EXCEPT
                         !.pc = "filter",
                         !.metadata = [kind |-> "dict",
                                       map |-> AllUnknown(extraction.selected_fields)]]
    /\ UNCHANGED <<pvars, dvars, csv, uvars>>

\* 440-446
Unfiltered(selected, metadata) == metadata

Filtered(selected, metadata) ==
    [f \in selected |-> IF f \in DOMAIN metadata THEN metadata[f] ELSE "Unknown"]

\* 440-457.  `field in metadata` raises TypeError when metadata is None; the
\* loop over an empty selection never evaluates it.
FldFilter ==
    /\ extraction.pc = "filter"
    /\ extraction' =
          IF extraction.metadata.kind # "dict" /\ extraction.selected_fields # {}
          THEN [extraction EXCEPT !.pc = OnRaise("filter")]
          ELSE [extraction EXCEPT
                  !.pc = "done",
                  !.results = Append(@, [filename |-> 1,
                                         metadata |-> Filtered(extraction.selected_fields,
                                                               extraction.metadata.map)])]
    /\ UNCHANGED <<pvars, dvars, csv, uvars>>

\* 459-466: the document is skipped, no record is appended
FldFileExcept ==
    /\ extraction.pc = "file_except"
    /\ extraction' = [extraction EXCEPT !.pc = "skipped"]
    /\ UNCHANGED <<pvars, dvars, csv, uvars>>

FieldsNext ==
    \/ FldLlm
    \/ FldHeuristic
    \/ FldUnknown
    \/ FldFilter
    \/ FldFileExcept

SpecFields == FieldsInit /\ [][FieldsNext]_vars

\* ------------------------------------------------- generate_csv_from_results
\* A string is the sequence of its pieces: a one-character string is a sequence
\* of length 1, a title is one piece, "" is <<>>.
\* What a record holds under reading_materials: nothing (no such key), None, a
\* string, or a list of entries.  An entry of the list is a dict with a title
\* and, or not ("-"), a requirement, or it is a string.
Titles == {"t1", "t2"}
Requirements == {"required", "optional", "-"}
DictItem(title, requirement) ==
    [kind |-> "dict", title |-> title, requirement |-> requirement, chars |-> <<>>]
StrItem(chars) == [kind |-> "str", title |-> "-", requirement |-> "-", chars |-> chars]
MaterialItems ==
    {DictItem(t, r) : t \in Titles, r \in Requirements} \cup {StrItem(<<"s">>)}

RECURSIVE ItemLists(_)
ItemLists(n) ==
    IF n = 0 THEN {<<>>}
    ELSE LET shorter == ItemLists(n - 1)
         IN shorter \cup {Append(l, m) : l \in {x \in shorter : Len(x) = n - 1},
                                         m \in MaterialItems}

Materials(kind, chars, items) == [kind |-> kind, chars |-> chars, items |-> items]
\* app.py 434-438 and 444: the value of a field no extractor supplied
UnknownStr == <<"U", "n", "k", "n", "o", "w", "n">>
MaterialValues ==
    {Materials("absent", <<>>, <<>>), Materials("null", <<>>, <<>>),
     Materials("str", UnknownStr, <<>>)}
    \cup {Materials("list", <<>>, l) : l \in ItemLists(MaxMaterials)}

RECURSIVE CsvInputs(_)
CsvInputs(n) ==
    IF n = 0 THEN {<<>>}
    ELSE LET shorter == CsvInputs(n - 1)
         IN shorter \cup {Append(l, [reading_materials |-> v]) :
                             l \in {x \in shorter : Len(x) = n - 1},
                             v \in MaterialValues}

\* app.py 735: metadata.get('reading_materials', [])
GetReadingMaterials(result) ==
    IF result.reading_materials.kind = "absent"
    THEN Materials("list", <<>>, <<>>)
    ELSE result.reading_materials

\* app.py 736: `if reading_materials:`
Truthy(v) ==
    CASE v.kind = "list" -> v.items # <<>>
      [] v.kind = "str" -> v.chars # <<>>
      [] OTHER -> FALSE

\* app.py 741: `for item in reading_materials`; a string yields its characters
Iterate(v) ==
    IF v.kind = "str"
    THEN [i \in 1..Len(v.chars) |-> StrItem(<<v.chars[i]>>)]
    ELSE v.items

\* app.py 766: len(reading_materials)
PyLen(v) == IF v.kind = "str" THEN Len(v.chars) ELSE Len(v.items)

\* app.py 742-753 and 761: material_str of an entry that has neither author nor
\* url; item.get('type', 'book')
MaterialStr(item) ==
    IF item.kind = "dict" THEN <<item.title, " (", "book", ")">> ELSE item.chars

\* app.py 744 and 756-763: requirement == 'required', of a dict only
IsRequired(item) == item.kind = "dict" /\ item.requirement = "required"
IsOptional(item) == ~IsRequired(item)

\* '; '.join(...)
RECURSIVE Join(_)
Join(strs) ==
    IF strs = <<>> THEN <<>>
    ELSE IF Len(strs) = 1 THEN strs[1]
    ELSE strs[1] \o <<"; ">> \o Join(Tail(strs))

Rendered(items) == [i \in 1..Len(items) |-> MaterialStr(items[i])]

\* app.py 734-774: the reading-materials columns of one row
CsvRow(result) ==
    LET reading_materials == GetReadingMaterials(result)
        items == Iterate(reading_materials)
    IN IF Truthy(reading_materials)
       THEN [reading_materials_count |-> PyLen(reading_materials),
             required_materials |-> Join(Rendered(SelectSeq(items, IsRequired))),
             optional_materials |-> Join(Rendered(SelectSeq(items, IsOptional))),
             reading_materials_list |-> Join(Rendered(items))]
       ELSE [reading_materials_count |-> 0,
             required_materials |-> <<>>,
             optional_materials |-> <<>>,
             reading_materials_list |-> <<>>]

\* app.py 679-807
generate_csv_from_results ==
    /\ csv.pc = "called"
    /\ csv' = IF csv.results = <<>>
              THEN [csv EXCEPT !.pc = "returned", !.out = "No data available"]
              ELSE [csv EXCEPT !.pc = "returned", !.out = "csv",
                               !.rows = [i \in 1..Len(csv.results) |->
                                           CsvRow(csv.results[i])]]
    /\ UNCHANGED <<pvars, dvars, extraction, uvars>>

CsvInit ==
    /\ PipelineInit
    /\ DownloaderIdle
    /\ extraction = NoExtraction
    /\ PureIdle
    /\ \E results \in CsvInputs(MaxCsvRecords) :
          csv = [NoCsv EXCEPT !.pc = "called", !.results = results]

CsvNext == generate_csv_from_results

SpecCsv == CsvInit /\ [][CsvNext]_vars

\* --------------------------------------------------- get_pdf_links_from_page
\* The page, in document order: <a href> and <iframe src> elements.  `url` is
\* urljoin(url, href), `pdf` whether href.lower() ends in '.pdf', `text` the
\* link text or the iframe's title ("" when there is none), `row` where the
\* anchor stands: outside every table ("-"), in a table row whose text is no
\* longer than the link text ("short"), or in one whose text is longer
\* ("long").
PageUrls == {"u1", "u2"}
Element(tag, url, pdf, text, row) ==
    [tag |-> tag, url |-> url, pdf |-> pdf, text |-> text, row |-> row]
PageElements ==
    {Element("a", u, TRUE, x, r) : u \in PageUrls, x \in {"t", ""},
                                   r \in {"-", "short", "long"}}
    \cup {Element("a", "u1", FALSE, "t", "-")}
    \cup {Element("iframe", "u1", TRUE, "t", "-"), Element("iframe", "u2", TRUE, "", "-")}

RECURSIVE Pages(_)
Pages(n) ==
    IF n = 0 THEN {<<>>}
    ELSE LET shorter == Pages(n - 1)
         IN shorter \cup {Append(l, e) : l \in {x \in shorter : Len(x) = n - 1},
                                         e \in PageElements}

\* the caps a downloader is constructed with: max_downloads=5 in app.py 223,
\* and smaller ones that a page of MaxElements elements exceeds
ScanCaps == {1, 2, MaxDownloads}

PdfLink(url, title) == [url |-> url, title |-> title]

\* polisci_pdf_downloader.py 82-90
IsPdfAnchor(e) == e.tag = "a" /\ e.pdf
DirectLink(e) == PdfLink(e.url, IF e.text = "" THEN "Untitled" ELSE e.text)
\* polisci_pdf_downloader.py 94-113
IsTableAnchor(e) == e.tag = "a" /\ e.pdf /\ e.row # "-"
TableLink(e) ==
    PdfLink(e.url, IF e.row = "long" THEN "row text"
                   ELSE IF e.text = "" THEN "Untitled" ELSE e.text)
\* polisci_pdf_downloader.py 117-125
IsPdfFrame(e) == e.tag = "iframe" /\ e.pdf
FrameLink(e) == PdfLink(e.url, IF e.text = "" THEN "Embedded PDF" ELSE e.text)

\* the links each of the three loops appends, in document order
DirectLinks(page) ==
    LET found == SelectSeq(page, IsPdfAnchor)
    IN [i \in 1..Len(found) |-> DirectLink(found[i])]
TableLinks(page) ==
    LET found == SelectSeq(page, IsTableAnchor)
    IN [i \in 1..Len(found) |-> TableLink(found[i])]
FrameLinks(page) ==
    LET found == SelectSeq(page, IsPdfFrame)
    IN [i \in 1..Len(found) |-> FrameLink(found[i])]

\* polisci_pdf_downloader.py 79-125: pdf_links before duplicates are removed
CollectedLinks(page) == DirectLinks(page) \o TableLinks(page) \o FrameLinks(page)

\* The entry a URL has already is kept.
FirstSeenWins(unique, pdf) ==
    IF \E k \in 1..Len(unique) : unique[k].url = pdf.url
    THEN unique
    ELSE Append(unique, pdf)

\* polisci_pdf_downloader.py 130: unique_pdfs[pdf['url']] = pdf; a dict keeps a
\* key at the position of its first insertion
SetItem(unique, pdf) ==
    IF \E k \in 1..Len(unique) : unique[k].url = pdf.url
    THEN [k \in 1..Len(unique) |-> IF unique[k].url = pdf.url THEN pdf ELSE unique[k]]
    ELSE Append(unique, pdf)

\* polisci_pdf_downloader.py 128-131
RECURSIVE UniquePdfs(_, _)
UniquePdfs(unique, pdf_links) ==
    IF pdf_links = <<>> THEN unique
    ELSE UniquePdfs(SetItem(unique, Head(pdf_links)), Tail(pdf_links))

\* polisci_pdf_downloader.py 134-135: pdf_links[:self.max_downloads]
FirstN(pdf_links, max_downloads) ==
    IF Len(pdf_links) > max_downloads THEN SubSeq(pdf_links, 1, max_downloads)
    ELSE pdf_links

\* polisci_pdf_downloader.py 70-145
get_pdf_links_from_page ==
    /\ scan.pc = "called"
    /\ scan' = [scan EXCEPT
                  !.pc = "returned",
                  !.result = IF scan.fetch = "raise" THEN <<>>
                             ELSE FirstN(UniquePdfs(<<>>, CollectedLinks(scan.page)),
                                         scan.max_downloads)]
    /\ UNCHANGED <<pvars, dvars, extraction, csv, naming>>

ScanInit ==
    /\ PipelineInit
    /\ DownloaderIdle
    /\ extraction = NoExtraction
    /\ csv = NoCsv
    /\ naming = NoNaming
    /\ \E page \in Pages(MaxElements), fetch \in {"ok", "raise"}, cap \in ScanCaps :
          scan = [NoScan EXCEPT !.pc = "called", !.page = page, !.fetch = fetch,
                                !.max_downloads = cap]

ScanNext == get_pdf_links_from_page

SpecScan == ScanInit /\ [][ScanNext]_vars

\* ------------------------------------------- the base filename of download_pdf
\* A title or a file name is the sequence of its pieces; a piece is a run of
\* characters that the tests of lines 168-176 tell from others.  "words" is
\* ten ordinary characters, "body" 196 of them, "x" one; "<" is a character
\* sanitize_filename replaces, " " a blank; "cut" is what [:200] leaves of the
\* piece it cuts through.
TitlePieces ==
    {"http", "HTTP", "polisci_", "Polisci_", ".pdf", ".PDF", "words", "body", "x", "<", " "}
PieceLen(piece) ==
    CASE piece \in {"http", "HTTP", ".pdf", ".PDF"} -> 4
      [] piece \in {"polisci_", "Polisci_", "POLISCI_", "syllabus"} -> 8
      [] piece = "words" -> 10
      [] piece = "body" -> 196
      [] OTHER -> 1

RECURSIVE StrLen(_)
\* len(s)
StrLen(str) == IF str = <<>> THEN 0 ELSE PieceLen(Head(str)) + StrLen(Tail(str))

\* str.lower(), piece by piece
LowerPiece(piece) ==
    CASE piece = "HTTP" -> "http"
      [] piece \in {"Polisci_", "POLISCI_"} -> "polisci_"
      [] piece = ".PDF" -> ".pdf"
      [] OTHER -> piece
StrLower(str) == [k \in 1..Len(str) |-> LowerPiece(str[k])]
\* str.startswith(piece) and str.endswith(piece), for a piece that is not cut
StartsWith(str, piece) == str # <<>> /\ str[1] = piece
EndsWith(str, piece) == str # <<>> /\ str[Len(str)] = piece

RECURSIVE Titles3(_)
Titles3(n) ==
    IF n = 0 THEN {<<>>}
    ELSE LET shorter == Titles3(n - 1)
         IN shorter \cup {Append(l, e) : l \in {x \in shorter : Len(x) = n - 1},
                                         e \in TitlePieces}
\* link texts are stripped (get_text(strip=True)) and not empty
LinkTitles ==
    {t \in Titles3(MaxPieces) : t # <<>> /\ t[1] # " " /\ t[Len(t)] # " "}

\* os.path.basename(parsed_url.path) of the links: get_pdf_links_from_page
\* takes every href whose lower() ends in '.pdf'
UrlFilenames ==
    {<<"x", ".pdf">>, <<"x", ".PDF">>, <<"polisci_", "x", ".pdf">>,
     <<"POLISCI_", "x", ".pdf">>, <<".pdf">>}

\* polisci_pdf_downloader.py 150: re.sub(r'[<>:"/\\|?*]', '_', filename)
ReplaceInvalid(str) == [k \in 1..Len(str) |-> IF str[k] = "<" THEN "_" ELSE str[k]]

\* polisci_pdf_downloader.py 152: ' '.join(filename.split())
RECURSIVE JoinSplit(_)
JoinSplit(str) ==
    IF str = <<>> THEN <<>>
    ELSE IF Head(str) = " "
         THEN IF Tail(str) = <<>> \/ Head(Tail(str)) = " "
              THEN JoinSplit(Tail(str))
              ELSE <<" ">> \o JoinSplit(Tail(str))
         ELSE <<Head(str)>> \o JoinSplit(Tail(str))
StripLeft(str) == IF str # <<>> /\ Head(str) = " " THEN Tail(str) ELSE str

\* polisci_pdf_downloader.py 152: [:200]
RECURSIVE Truncate(_, _)
Truncate(str, limit) ==
    IF str = <<>> \/ limit = 0 THEN <<>>
    ELSE IF PieceLen(Head(str)) <= limit
         THEN <<Head(str)>> \o Truncate(Tail(str), limit - PieceLen(Head(str)))
         ELSE <<"cut">>

\* polisci_pdf_downloader.py 147-153
sanitize_filename(filename) == Truncate(StripLeft(JoinSplit(ReplaceInvalid(filename))), 200)

FixedName == <<"polisci_", "syllabus", ".pdf">>

\* polisci_pdf_downloader.py 168-173
NamedBeforePrefix(title, url_filename) ==
    IF StrLen(title) > 10 /\ ~StartsWith(StrLower(title), "http")
    THEN LET base_filename == sanitize_filename(title)
         IN IF EndsWith(StrLower(base_filename), ".pdf")
            THEN base_filename
            ELSE base_filename \o <<".pdf">>
    ELSE IF EndsWith(url_filename, ".pdf") THEN url_filename ELSE FixedName

\* polisci_pdf_downloader.py 175-177
WithPrefix(base_filename) ==
    IF StartsWith(StrLower(base_filename), "polisci_")
    THEN base_filename
    ELSE <<"polisci_">> \o base_filename

\* polisci_pdf_downloader.py 160-177: download_pdf up to the lock
DlBaseFilename ==
    /\ naming.pc = "called"
    /\ naming' = [naming EXCEPT
                    !.pc = "derived",
                    !.base_filename =
                        WithPrefix(NamedBeforePrefix(naming.title, naming.url_filename))]
    /\ UNCHANGED <<pvars, dvars, extraction, csv, scan>>

NameInit ==
    /\ PipelineInit
    /\ DownloaderIdle
    /\ extraction = NoExtraction
    /\ csv = NoCsv
    /\ scan = NoScan
    /\ \E title \in LinkTitles, url_filename \in UrlFilenames :
          naming = [NoNaming EXCEPT !.pc = "called", !.title = title,
                                    !.url_filename = url_filename]

NameNext == DlBaseFilename

SpecName == NameInit /\ [][NameNext]_vars

\* ------------------------------------------------------------ properties
\* A download_pdf call holds its file name from the moment it has resolved it
\* until it discards it; a call that returned True keeps it.
\* C1: for every interleaving of the download_pdf calls made on one downloader
\* (one lock, one downloaded_files, one folder), the file names held by
\* distinct calls that are in flight or have returned True are pairwise
\* distinct, so no two of them write to the same path.
C1_HeldFilenamesDistinct ==
    LET Holds(c) == \/ calls[c].pc \in {"get", "store", "release"}
                    \/ calls[c].pc = "returned" /\ calls[c].result
    IN \A c, d \in CallIds :
         (c # d /\ calls[c].obj = calls[d].obj /\ Holds(c) /\ Holds(d))
            => calls[c].filename # calls[d].filename

\* Three calls of one downloader for links with the same title are in flight
\* at once, between resolving their names and the end of their writes.
C1_Witness ==
    \E c, d, e \in CallIds :
        /\ c < d /\ d < e
        /\ \A x \in {c, d, e} : /\ calls[x].pc \in {"get", "store"}
                                /\ calls[x].obj = calls[c].obj
                                /\ BaseFilename(calls[x].ref) = BaseFilename(calls[c].ref)

\* C9: a download_pdf call made when the folder already holds the whole
\* document of its reference makes no request for it and returns True, on the
\* downloader that stored the document and on a new one alike.
C9_NoRefetch ==
    [][\A c \in CallIds :
         (calls[c].pc = "claim" /\ calls'[c].pc # "claim" /\ HasDocument(calls[c].ref))
            => (calls'[c].pc = "returned" /\ calls'[c].result)]_vars

\* C2: while a cross-reference task of the job is scheduled or running, no
\* request adds a second check_primo_background task (check_primo_resources
\* adds one whenever it does not answer with a rejection).
C2_NoSecondCrossReference ==
    [][(\E t \in TaskIds : tasks[t].kind = "primo") =>
         \A u \in TaskIds : ~(tasks[u].kind = "none" /\ tasks'[u].kind = "primo")]_vars

\* The progress updates of one stage invocation on a list of n items, in the
\* order the code makes them, for every n up to the download cap.
ProgressInOrder(n) ==
    \A i \in 0 .. n - 1 :
        /\ 50 <= StepProgress(i, n, 0)
        /\ StepProgress(i, n, 0) <= StepProgress(i, n, 1)
        /\ StepProgress(i, n, 1) <= EndProgress(i, n)
        /\ i + 1 < n => EndProgress(i, n) <= StepProgress(i + 1, n, 0)
        /\ EndProgress(i, n) <= 100
        /\ ExtStartProgress(i, n) <= ExtAiProgress(i, n)
        /\ ExtAiProgress(i, n) <= ExtDoneProgress(i, n)
        /\ i + 1 < n => ExtDoneProgress(i, n) <= ExtStartProgress(i + 1, n)
        /\ ExtDoneProgress(i, n) <= 100
        /\ i + 1 < n => PrimoProgress(i, n) <= PrimoProgress(i + 1, n)
        /\ PrimoProgress(i, n) <= 95

\* C3, as stated: within one stage invocation every progress value written is
\* at least the one written before it, the value written with a final status
\* included, and progress is 100 when the invocation sets completed.
C3_ProgressNeverDecreases ==
    [][\A t \in TaskIds :
         tasks[t].kind # "none" =>
            IF tasks'[t].kind # "none"
            THEN tasks'[t].lastp >= tasks[t].lastp
            ELSE /\ jobs_status'.progress >= tasks[t].lastp
                 /\ jobs_status'.status = "completed" => jobs_status'.progress = 100]_vars

\* C3, amended: within one stage invocation the progress values written before
\* its final status are non-decreasing (when an invocation is accepted, the
\* values its updates compute are in order for every number of items up to the
\* download cap); progress is 100 when the invocation sets completed; the one
\* decrease is the reset to 0 of an acquisition that sets error.
C3_ProgressMonotoneUntilError ==
    [][/\ (budget' # budget) => \A n \in 1 .. MaxDownloads : ProgressInOrder(n)
       /\ \A t \in TaskIds :
            tasks[t].kind # "none" =>
               IF tasks'[t].kind # "none"
               THEN tasks'[t].lastp >= tasks[t].lastp
               ELSE \/ /\ jobs_status'.status = "completed"
                       /\ jobs_status'.progress = 100
                    \/ /\ jobs_status'.status = "error"
                       /\ \/ jobs_status'.progress >= tasks[t].lastp
                          \/ tasks[t].kind = "acq" /\ jobs_status'.progress = 0]_vars

\* A cross-reference over more than one record has written its last progress
\* value before saving, after an acquisition and an extraction of the job.
C3_Witness ==
    \E t \in TaskIds : /\ tasks[t].kind = "primo"
                       /\ tasks[t].pc = "save"
                       /\ tasks[t].n > 1
                       /\ tasks[t].lastp = 95
                       /\ jobs_status.files_downloaded > 1

\* C4: a step of a stage that sets the job's status to error leaves progress
\* at 0.
C4_ErrorResetsProgress ==
    [][(jobs_status.status # "error" /\ jobs_status'.status = "error")
          => jobs_status'.progress = 0]_vars

\* C5: an extraction task does not start while an acquisition task of the job
\* has not finished, and a cross-reference task does not start while an
\* extraction task of the job has not finished.
C5_StagesInOrder ==
    [][\A t \in TaskIds :
         (tasks[t].pc = "scheduled" /\ tasks'[t].pc # "scheduled") =>
            /\ tasks[t].kind = "ext" => ~\E u \in TaskIds : tasks[u].kind = "acq"
            /\ tasks[t].kind = "primo" => ~\E u \in TaskIds : tasks[u].kind = "ext"]_vars

\* C6: once the job's acquisition has ended and left no document in the job's
\* folder (it set error, or it completed without a download), a request
\* schedules no extraction task and leaves the job's status, progress and
\* message as they are.
C6_ExtractionNeedsDocuments ==
    [][(/\ jobs_status.status # "none"
        /\ job_folder.pdfs = {}
        /\ ~\E u \in TaskIds : tasks[u].kind = "acq"
        /\ response'.request = "extract_metadata")
          => /\ \A t \in TaskIds : ~(tasks[t].kind = "none" /\ tasks'[t].kind = "ext")
             /\ jobs_status' = jobs_status]_vars

\* C7: an acquisition whose discovery yields no link, because the page could
\* not be fetched or parsed or because it lists no document, ends with status
\* error, never with completed.
C7_NoDocumentsIsAnError ==
    [][\A t \in TaskIds :
         (tasks[t].kind = "acq" /\ tasks[t].pc = "complete" /\ tasks[t].links = 0
             /\ tasks'[t].kind = "none")
            => jobs_status'.status = "error"]_vars

\* C8: a background task sets completed or error in the step it ends with,
\* and time and again no task of the job is outstanding and the job's status
\* is none of pending, downloading and processing: every task that was added
\* has ended, and the job does not stay in one of these statuses.
C8_EveryInvocationEnds ==
    /\ []<>(/\ \A t \in TaskIds : tasks[t].kind = "none"
            /\ jobs_status.status \notin {"pending", "downloading", "processing"})
    /\ [][\A t \in TaskIds : (tasks[t].kind # "none" /\ tasks'[t].kind = "none")
                                => jobs_status'.status \in Terminal]_vars

\* All three stages of a job were accepted and each one has ended.
C8_Witness ==
    /\ budget = 0
    /\ \A t \in TaskIds : tasks[t].kind = "none"
    /\ jobs_status.status \in Terminal
    /\ jobs_status.results_file
    /\ primo_file # NoFile

\* C11: result retrieval (get_results, download_results) answers with the
\* result file that was written last; in particular it answers with the
\* extraction results when an extraction was re-run after a cross-reference.
C11_RetrievalIsMostRecent ==
    [][/\ response'.answer \in {"primo_results", "primo_file"} => newest = "primo"
       /\ response'.answer \in {"metadata_results", "metadata_file"} => newest = "metadata"]_vars

\* C13: for a document with text, when the LLM extractor raises the record's
\* values are those of the heuristic extractor's output, when the heuristic
\* extractor raises as well every selected field of the record is "Unknown",
\* and no exception leaves the loop body uncaught.
C13_FallbackChain ==
    /\ extraction.pc # "escaped"
    /\ (extraction.pc \in {"done", "skipped"} /\ extraction.llm.kind = "raise") =>
          /\ extraction.heuristic.kind = "dict" =>
                /\ Len(extraction.results) = 1
                /\ \A f \in extraction.selected_fields \cap DOMAIN extraction.heuristic.map :
                      extraction.results[1].metadata[f] = extraction.heuristic.map[f]
          /\ extraction.heuristic.kind = "raise" =>
                /\ Len(extraction.results) = 1
                /\ \A f \in extraction.selected_fields :
                      extraction.results[1].metadata[f] = "Unknown"

C13_Witness ==
    /\ extraction.pc = "done"
    /\ extraction.llm.kind = "raise"
    /\ extraction.heuristic.kind = "raise"
    /\ extraction.selected_fields = FieldNames
    /\ Len(extraction.results) = 1

\* C14: the metadata of every record has exactly the selected fields as its
\* keys; a selected field the extractor's output lacks is "Unknown", and a
\* field that was not selected does not appear, whichever extractor's output
\* the record was made from.
C14_KeysAreSelectedFields ==
    \A k \in 1..Len(extraction.results) :
        /\ DOMAIN extraction.results[k].metadata = extraction.selected_fields
        /\ \A f \in extraction.selected_fields \ DOMAIN extraction.metadata.map :
              extraction.results[k].metadata[f] = "Unknown"

C14_Witness ==
    /\ Len(extraction.results) = 1
    /\ extraction.selected_fields = {"instructor"}
    /\ DOMAIN extraction.metadata.map = {"reading_materials"}
    /\ extraction.results[1].metadata = [f \in {"instructor"} |-> "Unknown"]

\* C15: a reference whose download fails (returns False or raises) does not
\* keep the others from being attempted: each step of the download loop
\* attempts the next reference of the capped list, the task leaves the loop
\* only after the last one, and it then sets status completed with a message
\* giving the number of successes out of the number of references attempted.
C15_FailureIsolated ==
    [][\A t \in TaskIds :
          (tasks[t].kind = "acq" /\ tasks[t].pc \in {"step0", "step1", "download", "complete"}) =>
              /\ tasks[t].att = tasks[t].i
              /\ (tasks[t].pc = "download" /\ tasks'[t] # tasks[t]) =>
                    /\ tasks'[t].att = tasks[t].att + 1
                    /\ tasks'[t].i = tasks[t].i + 1
                    /\ tasks'[t].pc = "complete" <=> tasks'[t].att = tasks[t].n
              /\ tasks[t].pc # "complete" => tasks'[t].kind = "acq"
              /\ (tasks[t].pc = "complete" /\ tasks'[t] # tasks[t]) =>
                    /\ tasks[t].att = tasks[t].n
                    /\ jobs_status'.status = "completed"
                    /\ jobs_status'.message =
                          Msg("DownloadComplete", tasks[t].ok, tasks[t].att)]_vars

\* The last reference of three or more was downloaded after an earlier one failed.
C15_Witness ==
    \E t \in TaskIds : /\ tasks[t].kind = "acq"
                       /\ tasks[t].pc = "complete"
                       /\ tasks[t].n >= 3
                       /\ tasks[t].att = tasks[t].n
                       /\ tasks[t].res = <<"ok">>
                       /\ tasks[t].ok < tasks[t].n

\* The number a counter of the job's entry stands for: a counter that is
\* still None has counted nothing.
CounterValue(v) == IF v = -1 THEN 0 ELSE v

\* C16: while the acquisition runs, files_downloaded never decreases, grows
\* only by one and only in the step in which download_pdf returned True, and
\* is at most the number of references attempted so far, which is at most
\* files_found.
C16_FilesDownloadedCounts ==
    [][\A t \in TaskIds :
          (tasks[t].kind = "acq" /\ tasks'[t].kind = "acq") =>
              LET was == CounterValue(jobs_status.files_downloaded)
                  now == CounterValue(jobs_status'.files_downloaded)
                  found == CounterValue(jobs_status'.files_found)
              IN
              /\ now >= was
              /\ now # was => /\ now = was + 1
                              /\ tasks[t].pc = "download"
                              /\ tasks'[t].res = <<"ok">>
              /\ (tasks[t].pc = "download" /\ tasks'[t].res = <<"ok">>) => now = was + 1
              /\ now <= tasks'[t].att
              /\ tasks'[t].att <= found]_vars

\* A download returned False after another had succeeded: files_downloaded is
\* below the number of references attempted.
C16_Witness ==
    \E t \in TaskIds : /\ tasks[t].kind = "acq"
                       /\ tasks[t].res # <<"ok">>
                       /\ tasks[t].att >= 2
                       /\ jobs_status.files_downloaded >= 1
                       /\ jobs_status.files_downloaded < tasks[t].att
                       /\ tasks[t].att < jobs_status.files_found

\* The content types that declare a PDF
PdfTypes == {<<"application/pdf">>, <<"Application/PDF">>,
             <<"application/pdf", "charset=binary">>}

\* C17: a transfer that completed is treated as a failure exactly when its
\* content type is no PDF type and its body is shorter than 1024 bytes; the
\* call then returns False, writes no file, and takes its file name out of
\* downloaded_files, so that a later call resolves to that name again.
C17_ValidationRejects ==
    [][\A c \in CallIds :
          /\ (calls[c].pc = "get" /\ http_response'.call = c) =>
                /\ calls'[c].pc = "release" <=>
                      (http_response'.content_type \notin PdfTypes /\ http_response'.length < 1024)
                /\ calls'[c].pc # "release" => calls'[c].pc = "store"
                /\ disk' = disk
          /\ (calls[c].pc = "release" /\ http_response.call = c) =>
                /\ calls'[c].pc = "returned"
                /\ calls'[c].result = FALSE
                /\ disk' = disk
                /\ calls[c].filename \notin downloaded_files'
                /\ ResolveFilename(BaseFilename(calls[c].ref), downloaded_files')
                      = calls[c].filename]_vars

\* A call whose answer was refused has returned False, and a later call for
\* the same reference has obtained the file name it gave back.
C17_Witness ==
    \E c, d \in CallIds :
        /\ c < d
        /\ calls[c].obj = calls[d].obj
        /\ calls[c].pc = "returned" /\ ~calls[c].result
        /\ calls[d].filename = calls[c].filename
        /\ calls[d].pc = "release"
        /\ http_response.call = d
        /\ http_response.content_type = <<>>
        /\ http_response.length = MinPdfBytes - 1

\* C18: a cross-reference request made while the extraction results file is
\* missing or holds an empty list is not accepted: it is answered with an
\* error (or, while a cross-reference is under way, as already running), no
\* background task is added, and the job's entry is left as it was.
C18_MissingResultsRejected ==
    [][(/\ response'.request = "check_primo_resources"
        /\ metadata_file.state = "absent" \/ metadata_file = ListFile(<<>>)) =>
            /\ response'.answer \in {"not_found", "server_error", "already_running"}
            /\ tasks' = tasks
            /\ jobs_status' = jobs_status]_vars

\* A request made for a job whose extraction wrote an empty list was refused.
C18_Witness ==
    /\ response = Answer("check_primo_resources", "server_error")
    /\ metadata_file = ListFile(<<>>)
    /\ jobs_status.status = "completed"
    /\ \A t \in TaskIds : tasks[t].kind # "primo"

C20_LookupFailureIsolated ==
    [][\A t \in TaskIds :
          /\ (tasks[t].kind = "primo" /\ tasks[t].pc = "await" /\ tasks'[t] # tasks[t]) =>
                LET k == tasks[t].i + 1 IN
                /\ tasks'[t].kind = "primo"
                /\ tasks'[t].i = k
                /\ tasks'[t].pc = IF k < tasks[t].n THEN "record" ELSE "final"
                /\ Len(tasks'[t].res) = tasks[t].n
                /\ tasks'[t].res[k].ann \in {"found", "notfound", "error"}
                /\ \A j \in 1 .. tasks[t].n : j # k => tasks'[t].res[j] = tasks[t].res[j]
                /\ jobs_status'.status = jobs_status.status
          /\ (tasks[t].kind = "primo" /\ tasks[t].pc = "save" /\ tasks'[t] # tasks[t]) =>
                IF jobs_status'.status = "completed"
                THEN /\ primo_file' = ListFile(tasks[t].res)
                     /\ Len(primo_file'.recs) = tasks[t].n
                     /\ \A j \in 1 .. tasks[t].n : primo_file'.recs[j].ann # "none"
                ELSE /\ jobs_status'.status = "error"
                     /\ primo_file' = primo_file \/ primo_file'.state = "corrupt"]_vars

\* The lookup for the first of two records failed, the second record's lookup
\* found matches, and the stage completed with both in its results.
C20_Witness ==
    /\ jobs_status.status = "completed"
    /\ jobs_status.primo_results_file
    /\ primo_file.state = "list"
    /\ Len(primo_file.recs) = 2
    /\ primo_file.recs[1].ann = "error"
    /\ primo_file.recs[2].ann = "found"

\* C21: for a record without reading materials the cross-reference makes no
\* lookup and marks the record as not found with an error and no matches; for
\* a record with reading materials it makes the lookup, once: the results it
\* writes hold a lookup's answer exactly for the records with materials, and
\* as many lookups have returned as there are such records.
C21_LookupOnlyWithMaterials ==
    [][\A t \in TaskIds :
          tasks[t].kind = "primo" =>
              /\ (tasks[t].pc = "record" /\ tasks'[t] # tasks[t]) =>
                    LET k == tasks[t].i + 1 IN
                    IF tasks[t].res[k].mat = "empty"
                    THEN /\ tasks'[t].pc # "await"
                         /\ tasks'[t].res[k].ann = "nomat"
                         /\ tasks'[t].i = k
                         /\ tasks'[t].proc = tasks[t].proc
                    ELSE /\ tasks'[t].pc = "await"
                         /\ tasks'[t].i = tasks[t].i
                         /\ tasks'[t].res = tasks[t].res
              /\ (tasks[t].pc = "await" /\ tasks'[t] # tasks[t]) =>
                    /\ tasks[t].res[tasks[t].i + 1].mat # "empty"
                    /\ tasks'[t].i = tasks[t].i + 1
                    /\ tasks'[t].proc = tasks[t].proc + 1
              /\ (tasks[t].pc = "save" /\ tasks'[t] # tasks[t]) =>
                    /\ \A j \in 1 .. tasks[t].n :
                          IF tasks[t].res[j].mat = "empty"
                          THEN tasks[t].res[j].ann = "nomat"
                          ELSE tasks[t].res[j].ann \in LookupOutcomes
                    /\ tasks[t].proc =
                          Cardinality({j \in 1 .. tasks[t].n : tasks[t].res[j].mat # "empty"})]_vars

\* A cross-reference has gone through a record without materials and one with.
C21_Witness ==
    \E t \in TaskIds :
        /\ tasks[t].kind = "primo"
        /\ tasks[t].pc = "save"
        /\ tasks[t].n = 2
        /\ tasks[t].res[1].mat = "empty" /\ tasks[t].res[1].ann = "nomat"
        /\ tasks[t].res[2].mat = "items" /\ tasks[t].res[2].ann = "found"
        /\ tasks[t].proc = 1

\* C22: a status query is answered not-found exactly when no discovery request
\* has created the job yet; the job's entry, once created, is never removed,
\* so every later status query is answered with the entry.
C22_StatusFoundOnceCreated ==
    [][/\ response'.request = "get_job_status" =>
             /\ response'.answer = "not_found" <=> jobs_status.status = "none"
             /\ response'.answer # "not_found" =>
                   /\ response'.answer = "status"
                   /\ response'.status = jobs_status.status
                   /\ response'.progress = jobs_status.progress
       /\ jobs_status.status # "none" => jobs_status'.status # "none"
       /\ (jobs_status.status = "none" /\ jobs_status'.status # "none") =>
             response'.request = "discover_syllabi"]_vars

\* A status query made after the job's last stage has ended is answered.
C22_Witness ==
    /\ response.request = "get_job_status"
    /\ response.answer = "status"
    /\ response.status = "completed"
    /\ jobs_status.primo_results_file

\* C24: while a stage's task is running, a status query can be served between
\* two of its steps, for the acquisition, the extraction and the
\* cross-reference alike: whenever a task has started and not yet ended, the
\* status query is enabled.
C24_StatusQueryBetweenSteps ==
    \A t \in TaskIds :
        (tasks[t].kind \in {"acq", "ext", "primo"} /\ tasks[t].pc # "scheduled") =>
            ENABLED get_job_status

\* C23: at no time are more than 3 download_pdf calls of one run of the
\* downloader between their request and their return, however many references
\* the run submits to its pool.
InNetworkPhase == {c \in CallIds : calls[c].pc \in {"get", "store"}}
C23_AtMostThreeTransfers ==
    /\ Cardinality(Active) <= MaxWorkers
    /\ Cardinality(InNetworkPhase) <= MaxWorkers

\* three transfers are in their network phase while references of the run
\* are still waiting for a thread
C23_Witness ==
    /\ Cardinality(InNetworkPhase) = MaxWorkers
    /\ Len(calls) < RunEnv.calls

\* The reading materials of a record, as a list: the entries of its list; none
\* when it has no list.  A record that holds a string in place of the list is
\* read either as having no material or as having that string as its one
\* material.
MaterialReadings(result) ==
    LET v == result.reading_materials
    IN CASE v.kind = "list" -> {v.items}
         [] v.kind = "str" -> {<<>>, <<StrItem(v.chars)>>}
         [] OTHER -> {<<>>}
HasRequirement(item) == item.requirement = "required"
HasNoRequirement(item) == item.requirement # "required"

\* C25: in every row generate_csv_from_results writes, required_materials holds
\* the renderings of exactly the record's materials whose requirement is
\* 'required', optional_materials those of exactly the others,
\* reading_materials_list those of all of them in the order of the input, and
\* reading_materials_count is the number of the record's materials.
C25_MaterialsSplit ==
    csv.out = "csv" =>
        \A i \in 1..Len(csv.results) :
            \E ms \in MaterialReadings(csv.results[i]) :
                /\ csv.rows[i].reading_materials_count = Len(ms)
                /\ csv.rows[i].required_materials =
                      Join(Rendered(SelectSeq(ms, HasRequirement)))
                /\ csv.rows[i].optional_materials =
                      Join(Rendered(SelectSeq(ms, HasNoRequirement)))
                /\ csv.rows[i].reading_materials_list = Join(Rendered(ms))

\* C26: no record of the extraction holds a null value: a selected field for
\* which the extractor returned nothing, or returned null, holds "Unknown".
C26_NoNullValues ==
    \A k \in 1..Len(extraction.results) :
        \A f \in DOMAIN extraction.results[k].metadata :
            /\ extraction.results[k].metadata[f] # "null"
            /\ (f \notin DOMAIN extraction.metadata.map \/ extraction.metadata.map[f] = "null")
                  => extraction.results[k].metadata[f] = "Unknown"

\* the stage tasks of the job that have started and have not returned
StartedTasks ==
    {t \in TaskIds : tasks[t].kind \in {"acq", "ext", "primo"} /\ tasks[t].pc # "scheduled"}

\* C27: at any time at most one stage task of the job (acquisition, extraction
\* or cross-reference) has started and not returned, so no two tasks whose
\* executions overlap write the job's entry.
C27_OneStageTaskActive == Cardinality(StartedTasks) <= 1

\* C28: while an extraction runs, files_processed is at most the number of
\* records the run has produced (a skipped document and a document whose
\* processing raised are not counted), and no write of the run, the one on
\* completion included, lowers the value an earlier write of the run stored.
C28_FilesProcessedCountsRecords ==
    [][\A t \in TaskIds :
         (running = t /\ tasks[t].kind = "ext") =>
            /\ jobs_status'.files_processed <=
                  Len(IF tasks'[t].kind = "ext" THEN tasks'[t].res ELSE tasks[t].res)
            /\ ~(tasks[t].pc = "file" /\ tasks[t].i = 0) =>
                  jobs_status'.files_processed >= jobs_status.files_processed]_vars

\* C29: a file name enters downloaded_files in the step in which a call claims
\* it, before the call's request; it leaves downloaded_files only in the step in
\* which the call that holds it returns False; and the name of a call that
\* returned True, having stored its file or found it in the folder, is in
\* downloaded_files for as long as the downloader is in use.
C29_RegistryLifecycle ==
    [][downloader' = downloader =>
         /\ \A c \in CallIds :
               /\ (calls[c].pc = "claim" /\ calls'[c].pc # "claim") =>
                     /\ calls'[c].pc \in {"get", "returned"}
                     /\ calls'[c].filename \in downloaded_files'
               /\ (calls'[c].obj = downloader /\ calls'[c].pc \in {"get", "store"}) =>
                     calls'[c].filename \in downloaded_files'
               /\ (calls'[c].obj = downloader /\ calls'[c].pc = "returned"
                      /\ calls'[c].result) =>
                     calls'[c].filename \in downloaded_files'
         /\ \A n \in downloaded_files' \ downloaded_files :
               \E c \in CallIds : /\ calls[c].pc = "claim"
                                   /\ calls'[c].pc # "claim"
                                   /\ calls'[c].filename = n
         /\ \A n \in downloaded_files \ downloaded_files' :
               \E c \in CallIds : /\ calls[c].filename = n
                                   /\ calls[c].pc = "release"
                                   /\ calls'[c].pc = "returned"
                                   /\ ~calls'[c].result]_vars

\* one call found its file in the folder, one stored its file, one failed
\* after them and its name is free again
C29_Witness ==
    \E c, d, e \in CallIds :
        /\ calls[c].pc = "returned" /\ calls[c].result
        /\ File(calls[c].filename, calls[c].ref, FALSE) \in disk
        /\ calls[d].pc = "returned" /\ calls[d].result
        /\ File(calls[d].filename, calls[d].ref, TRUE) \in disk
        /\ {calls[c].filename, calls[d].filename} \subseteq downloaded_files
        /\ c < e /\ d < e
        /\ calls[e].pc = "returned" /\ ~calls[e].result
        /\ calls[e].filename # NoName
        /\ calls[e].filename \notin downloaded_files

\* C30: whenever a download_pdf call returns True, whichever downloader it was
\* made on, the file with the name the call resolved holds the whole document
\* of the call's own reference: not the document of another reference with
\* the same base name, and not a file an earlier failed transfer cut short.
C30_SuccessMeansOwnWholeFile ==
    [][\A c \in CallIds :
         (calls[c].pc # "returned" /\ calls'[c].pc = "returned" /\ calls'[c].result)
            => File(calls'[c].filename, calls'[c].ref, TRUE) \in disk']_vars

\* filename and metadata of the records of a list, without what the
\* cross-reference attaches to them
AsExtracted(recs) == [k \in 1..Len(recs) |-> [recs[k] EXCEPT !.ann = "none"]]

\* C31: the records a cross-reference works on are those of the extraction
\* file as it was when the task read it; no step of the task adds, drops,
\* reorders a record or changes its filename or metadata, whatever is done
\* to the extraction file meanwhile; and the file the task writes on
\* completion holds these records, each with primo_check and library_matches
\* attached, by the branch without materials, by the lookup or by its except.
C31_ArtifactIsAnnotatedInput ==
    [][\A t \in TaskIds :
         /\ (tasks[t].kind = "primo" /\ tasks[t].pc = "scheduled"
                /\ tasks'[t].kind = "primo" /\ tasks'[t].pc # "scheduled") =>
               /\ tasks'[t].res = metadata_file.recs
               /\ tasks'[t].res = AsExtracted(tasks'[t].res)
         /\ (tasks[t].kind = "primo" /\ tasks[t].pc # "scheduled"
                /\ tasks'[t].kind = "primo") =>
               AsExtracted(tasks'[t].res) = AsExtracted(tasks[t].res)
         /\ (tasks[t].kind = "primo" /\ tasks[t].pc = "save"
                /\ jobs_status'.status = "completed") =>
               /\ primo_file'.state = "list"
               /\ AsExtracted(primo_file'.recs) = AsExtracted(tasks[t].res)
               /\ \A k \in 1..Len(primo_file'.recs) :
                     primo_file'.recs[k].ann \in {"nomat"} \cup LookupOutcomes]_vars

\* a completed cross-reference wrote a record it handled without a lookup and
\* a record whose lookup failed
C31_Witness ==
    /\ jobs_status.status = "completed"
    /\ jobs_status.primo_results_file
    /\ primo_file.state = "list"
    /\ Len(primo_file.recs) = 2
    /\ primo_file.recs[1].ann = "nomat"
    /\ primo_file.recs[2].ann = "error"
    /\ AsExtracted(primo_file.recs) = metadata_file.recs

\* the positions of pdf_links at which a URL occurs for the first time
FirstPositions(links) ==
    {i \in 1..Len(links) : \A j \in 1..(i - 1) : links[j].url # links[i].url}
\* the title a URL has at its last occurrence in pdf_links
LastTitle(links, url) ==
    LET last == CHOOSE i \in 1..Len(links) :
                    /\ links[i].url = url
                    /\ \A j \in (i + 1)..Len(links) : links[j].url # url
    IN links[last].title

\* C32: get_pdf_links_from_page returns references with pairwise distinct
\* URLs, at most max_downloads of them; they are the first max_downloads
\* distinct URLs found, in the order of their first occurrence, each with the
\* title of its last occurrence; and a fetch that fails gives the empty list.
C32_DistinctCappedLinks ==
    scan.pc = "returned" =>
        LET links == CollectedLinks(scan.page)
            firsts == FirstPositions(links)
            result == scan.result
        IN /\ \A i, j \in 1..Len(result) : i # j => result[i].url # result[j].url
           /\ Len(result) <= scan.max_downloads
           /\ scan.fetch = "raise" => result = <<>>
           /\ scan.fetch = "ok" =>
                 /\ Len(result) = Min(Cardinality(firsts), scan.max_downloads)
                 /\ \A k \in 1..Len(result) :
                       \E i \in firsts :
                           /\ Cardinality({j \in firsts : j <= i}) = k
                           /\ result[k].url = links[i].url
                           /\ result[k].title = LastTitle(links, links[i].url)

\* a URL that occurs as a plain link and again in a table row keeps its place
\* and takes the later title, and the cap cuts the list
C32_Witness ==
    /\ scan.pc = "returned"
    /\ scan.fetch = "ok"
    /\ scan.max_downloads = 1
    /\ Len(CollectedLinks(scan.page)) = 3
    /\ CollectedLinks(scan.page)[1] = PdfLink("u1", "t")
    /\ CollectedLinks(scan.page)[2].url = "u2"
    /\ CollectedLinks(scan.page)[3] = PdfLink("u1", "row text")
    /\ scan.result = <<PdfLink("u1", "row text")>>

\* C33: the base filename is the sanitized title (with .pdf appended when it
\* lacks the extension) when the title is longer than 10 characters and does
\* not start with http; otherwise the last path segment of the URL when that
\* segment ends in .pdf; otherwise polisci_syllabus.pdf; the prefix polisci_
\* is put in front of a name that does not start with it and of no other, and
\* the name ends in .pdf.  Every test is read without regard to case.
C33_BaseFilenameDerivation ==
    naming.pc = "derived" =>
        LET title == naming.title
            url_filename == naming.url_filename
            expected ==
                IF StrLen(title) > 10 /\ ~StartsWith(StrLower(title), "http")
                THEN IF EndsWith(StrLower(sanitize_filename(title)), ".pdf")
                     THEN sanitize_filename(title)
                     ELSE sanitize_filename(title) \o <<".pdf">>
                ELSE IF EndsWith(StrLower(url_filename), ".pdf")
                     THEN url_filename
                     ELSE FixedName
        IN /\ naming.base_filename =
                 IF StartsWith(StrLower(expected), "polisci_")
                 THEN expected
                 ELSE <<"polisci_">> \o expected
           /\ StartsWith(StrLower(naming.base_filename), "polisci_")
           /\ EndsWith(StrLower(naming.base_filename), ".pdf")

\* C12: every change of the job's status is one of pending -> downloading,
\* pending -> processing, downloading -> completed, processing -> completed,
\* completed -> processing, or pending/downloading/processing -> error (the
\* creation of the job, which gives it status pending, is not a change).
C12_StatusTransitionsAllowed ==
    [][jobs_status'.status # jobs_status.status =>
          <<jobs_status.status, jobs_status'.status>> \in
              {<<"none", "pending">>,
               <<"pending", "downloading">>, <<"pending", "processing">>,
               <<"downloading", "completed">>, <<"processing", "completed">>,
               <<"completed", "processing">>,
               <<"pending", "error">>, <<"downloading", "error">>,
               <<"processing", "error">>}]_vars

\* C10: an acquisition that discovered `found` references calls download_pdf
\* at most min(found, MaxDownloads) times, and the list it downloads from is
\* no longer than that from before the first call on.
C10_AttemptsCapped ==
    \A t \in TaskIds :
        tasks[t].kind = "acq" =>
            /\ tasks[t].att <= Min(tasks[t].found, MaxDownloads)
            /\ tasks[t].pc \in {"step0", "step1", "download", "complete"} =>
                  /\ tasks[t].n <= Min(tasks[t].found, MaxDownloads)
                  /\ tasks[t].att <= tasks[t].n

\* An acquisition found more references than the cap and has made as many
\* calls as the cap allows.
C10_Witness ==
    \E t \in TaskIds : /\ tasks[t].kind = "acq"
                       /\ tasks[t].found > MaxDownloads
                       /\ tasks[t].att = MaxDownloads
====
